---- MODULE Spec2Model ----
(***************************************************************************)
(* A model of atscm's watch task (src/src/tasks/push.js, class WatchTask): *)
(* two watchers (filesystem, atvise server) deliver change events to       *)
(* handleFileChange / handleServerChange, which start PushStreams and      *)
(* PullStreams and keep the flags _pulling, _pushing, _lastPull and        *)
(* _lastPushed.  JavaScript runs every callback to completion, so each     *)
(* callback (an event handler, a stream's 'data' or 'end' listener) is one *)
(* atomic action; the streams themselves run asynchronously in between.    *)
(* A PushStream or PullStream is seen through the events the handlers      *)
(* listen to: for the one file or read result it is given, 'data' (push    *)
(* only) and then 'end'.  Overlapping streams may end in any order.        *)
(***************************************************************************)
EXTENDS Integers, Sequences, FiniteSets, TLC

\* Bound of the model: pushes and pulls started in one run.
MaxOps == 3

\* Date#setMilliseconds(0) drops the part of a timestamp below one second.
MsPerSecond == 1000

\* Node ids as strings (NodeId#toString()); a file is named by the node id its
\* path stands for (AtviseFile#nodeId).
Nodes == {"AGENT.A", "AGENT.B"}

\* The value of an unset _lastPushed (null).
Null == "null"

\* Timestamps in milliseconds: whole seconds and one with a millisecond part.
Times == {1000, 1500, 2000}

VARIABLES
  watcher,       \* watcher[w]: state of the file / server watcher
  run,           \* state of the promise returned by WatchTask#run
  _pulling,      \* WatchTask#_pulling
  _pushing,      \* WatchTask#_pushing
  _lastPull,     \* WatchTask#_lastPull
  _lastPushed,   \* WatchTask#_lastPushed
  pushes,        \* PushStreams that have not ended yet, in creation order
  pulls,         \* PullStreams that have not ended yet, in creation order
  serverEchoes,  \* nodes written by a push whose server notification is pending
  fileEchoes,    \* files written by a pull whose change event is pending, with
                 \* the mtime they were written with and whether that pull
                 \* has ended
  reloads,       \* calls of browserSyncInstance.reload()
  last,          \* the callback that ran last: what it was given, what it did
  resolved,      \* what that callback passed to the resolve of a handler's promise
  echoConsumed,  \* history: the node whose echo was suppressed last with no push
                 \* activity since, and what the next event for that node did
  \* Transformer (lib/transform/Transformer)
  direction,     \* direction[t]: Transformer#direction of transformer t
  pipeTo,        \* pipeTo[t]: the transformer t is piped to
  composed,      \* the applyTransformers call that built the chain, and its result
  outcome,       \* the last call of the Transformer API: what it threw or reported
  written,       \* files written to the head of the chain, in order
  emitted,       \* files the end of the chain has emitted, in order
  \* PushStream (lib/gulp/PushStream)
  pushStream,    \* how far the push run is
  srcStream,     \* files the source stream has not emitted yet
  restore,       \* files buffered in atvReferenceFilter.restore
  operation,     \* operation[f]: the server operation for file f and its state
  visited,       \* visited[f]: the streams file f has run through
  returned,      \* the returned stream: whether it is read, its unread files
  \* AtviseFile.encodeValue / AtviseFile.decodeValue
  step,          \* what has been computed so far
  dataType,      \* the node's DataType
  value,         \* value.value of the node's variant, if the run starts from one
  contents,      \* the file contents: encoded, or as read from a file
  decoded,       \* what decodeValue returned
  \* AtviseFile: paths and metadata
  at,            \* what has been computed so far
  readResult,    \* the read result a file is made for, if the run starts from one
  atviseFile,    \* the AtviseFile: its path and its _dataType, _arrayType, _typeDefinition
  extensions,    \* _getMetadata's extensions when it returned, and what it popped
  idPath,        \* the path AtviseFile#nodeId takes the node id from
  thrown,        \* the error thrown, if any
  \* Client.create
  now,           \* the time in milliseconds
  promise,       \* state of the promise Client.create returned
  client,        \* state of the OPCUAClient's connection attempt
  timer,         \* the timer set by Client.create
  \* XMLTransformer#encodeContents
  object,        \* the document to encode, and the builder's direction
  xml,           \* the calls of encodeContents' callback
  \* Stream: sessions
  session,       \* session[s]: state of the session of stream s on the server
  stream         \* stream[s]: this.session, the promise chain, events, the flush

watchVars == <<watcher, run, _pulling, _pushing, _lastPull, _lastPushed, pushes,
               pulls, serverEchoes, fileEchoes, reloads, last, resolved, echoConsumed>>

state == <<_pulling, _pushing, _lastPull, _lastPushed>>

tfVars == <<direction, pipeTo, composed, outcome, written, emitted>>

psVars == <<pushStream, srcStream, restore, operation, visited, returned>>

codecVars == <<step, dataType, value, contents, decoded>>

pathVars == <<at, readResult, atviseFile, extensions, idPath, thrown>>

clientVars == <<now, promise, client, timer>>

xmlVars == <<object, xml>>

sessionVars == <<session, stream>>

vars == <<watchVars, tfVars, psVars, codecVars, pathVars, clientVars, xmlVars,
          sessionVars>>

\* What the watch task leaves alone.
aside == <<tfVars, psVars, codecVars, pathVars, clientVars, xmlVars, sessionVars>>

\* What the transformers leave alone.
tfAside == <<watchVars, psVars, codecVars, pathVars, clientVars, xmlVars, sessionVars>>

\* What a PushStream leaves alone.
psAside == <<watchVars, tfVars, codecVars, pathVars, clientVars, xmlVars, sessionVars>>

\* What encoding and decoding leave alone.
codecAside == <<watchVars, tfVars, psVars, pathVars, clientVars, xmlVars, sessionVars>>

\* What paths and metadata leave alone.
pathAside == <<watchVars, tfVars, psVars, codecVars, clientVars, xmlVars, sessionVars>>

\* What Client.create leaves alone.
clientAside == <<watchVars, tfVars, psVars, codecVars, pathVars, xmlVars, sessionVars>>

\* What encodeContents leaves alone.
xmlAside == <<watchVars, tfVars, psVars, codecVars, pathVars, clientVars, sessionVars>>

\* What the streams' sessions leave alone.
sessionAside == <<watchVars, tfVars, psVars, codecVars, pathVars, clientVars, xmlVars>>

normalizeMtime_Rounds(date) ==
  (date + 500) - ((date + 500) % MsPerSecond)

\* AtviseFile.normalizeMtime: the date with its milliseconds set to 0.
normalizeMtime(date) == date - (date % MsPerSecond)

\* Pushes and pulls started so far: each is still in flight or ended with a reload.
Started == reloads + Len(pushes) + Len(pulls)

\* s without its i-th element.
RemoveAt(s, i) == [j \in 1..(Len(s) - 1) |-> IF j < i THEN s[j] ELSE s[j + 1]]

\* No echo has been suppressed since the last push activity.
NoEcho == [node |-> Null, then |-> "none"]

\* The history of suppressed echoes after handleServerChange(nodeId, ...) took the
\* branch res: a suppression opens a record, the next event for that node closes it.
EchoHistory(nodeId, res) ==
  IF echoConsumed.node = nodeId /\ echoConsumed.then = "pending"
  THEN [echoConsumed EXCEPT !.then = res]
  ELSE IF res = "suppressed"
       THEN [node |-> nodeId, then |-> "pending"]
       ELSE echoConsumed

NoCall == [op |-> "none", node |-> Null, mtime |-> 0, res |-> "none", echo |-> FALSE]

Call(op, node, mtime, res, echo) ==
  [op |-> op, node |-> node, mtime |-> mtime, res |-> res, echo |-> echo]

----
\* Transformer and Transformer.applyTransformers

\* Bounds: transformers in one list, files written to one chain.
MaxChain == 3
MaxFiles == 2

\* Transformer instances.  A and B are subclasses overriding both transform
\* methods, C is a plain Transformer.
Transformers == {"A", "B", "C"}
Overriding == {"A", "B"}

\* TransformDirection
Directions == {"FromDB", "FromFilesystem"}

\* An unset direction (undefined), and the state of an instance not created yet.
NoDirection == "undefined"
Unborn == "unborn"

\* What callers pass as a direction: a member of the enum, nothing, or garbage.
DirectionArgs == Directions \cup {NoDirection, "asdf"}

FileNames == {"f1", "f2"}

\* A file in a stream: its name and the transformers that handled it, in order.
File(name) == [name |-> name, via |-> <<>>]

Reverse(s) == [i \in 1..Len(s) |-> s[Len(s) + 1 - i]]

\* Lists of distinct transformers.
Lists ==
  {l \in UNION {[1..n -> Transformers] : n \in 0..MaxChain} :
     \A i, j \in DOMAIN l : l[i] = l[j] => i = j}

NoChain == [transformers |-> <<>>, direction |-> NoDirection, returned |-> "none"]

NoOutcome ==
  [op |-> "none", arg |-> "none", threw |-> "none", returned |-> "none",
   called |-> "none", error |-> "none"]

\* A call with the direction arg that threw synchronously.
Threw(op, arg, message) == [NoOutcome EXCEPT !.op = op, !.arg = arg, !.threw = message]

\* A call with the direction arg that returned.
Returned(op, arg, result) ==
  [NoOutcome EXCEPT !.op = op, !.arg = arg, !.returned = result]

\* A transform call: the method called last and the error passed to the callback.
Reported(op, called, error) ==
  [NoOutcome EXCEPT !.op = op, !.called = called, !.error = error]

\* No transformer exists, nothing is composed.
TfInit ==
  /\ direction = [t \in Transformers |-> Unborn]
  /\ pipeTo = [t \in Transformers |-> "none"]
  /\ composed = NoChain
  /\ outcome = NoOutcome
  /\ written = <<>>
  /\ emitted = <<>>

isValidDirection_Any(d) == d # NoDirection

\* isValidDirection: d is one of the TransformDirection values.
isValidDirection(d) == d \in Directions

\* new Transformer({ direction: d }), or new Transformer() for d undefined.
constructor(t, d) ==
  /\ direction[t] = Unborn
  /\ IF d = NoDirection \/ isValidDirection(d)
     THEN /\ direction' = [direction EXCEPT ![t] = d]
          /\ outcome' = Returned("constructor", d, t)
     ELSE /\ outcome' = Threw("constructor", d, "Invalid direction")
          /\ UNCHANGED direction
  /\ UNCHANGED <<pipeTo, composed, written, emitted>>
  /\ UNCHANGED tfAside

\* Transformer#withDirection
withDirection(t, d) ==
  /\ direction[t] # Unborn
  /\ IF isValidDirection(d)
     THEN /\ direction' = [direction EXCEPT ![t] = d]
          /\ outcome' = Returned("withDirection", d, t)
     ELSE /\ outcome' = Threw("withDirection", d, "Invalid direction")
          /\ UNCHANGED direction
  /\ UNCHANGED <<pipeTo, composed, written, emitted>>
  /\ UNCHANGED tfAside

Dispatch_AlwaysFromDB(d) ==
  IF d = NoDirection THEN "none" ELSE "transformFromDB"

\* Transformer#_transform: the method called for the direction d.
Dispatch(d) ==
  IF d = NoDirection THEN "none"
  ELSE IF d = "FromDB" THEN "transformFromDB"
  ELSE "transformFromFilesystem"

NotOverridden_PassesThrough(method, file) ==
  [called |-> method, error |-> "none", out |-> <<file>>]

\* Transformer#transformFromDB and Transformer#transformFromFilesystem of the base
\* class: the callback gets an error and no file.
NotOverridden(method, file) ==
  [called |-> method, error |-> "must be overridden", out |-> <<>>]

\* The method of a subclass: it hands the file on, marked as handled.
Overridden(t, method, file) ==
  [called |-> method, error |-> "none",
   out |-> <<[file EXCEPT !.via = Append(@, t)]>>]

\* transformer._transform(file, enc, callback) for a transformer with direction d:
\* the method called, the error the callback got, the files pushed.
Transform(t, d, file) ==
  LET method == Dispatch(d) IN
  IF method = "none"
  THEN [called |-> "none", error |-> "Transformer has no direction", out |-> <<>>]
  ELSE IF t \in Overriding
       THEN Overridden(t, method, file)
       ELSE NotOverridden(method, file)

\* Transformer#_transform, called on its own.
_transform(t, name) ==
  /\ direction[t] # Unborn
  /\ LET r == Transform(t, direction[t], File(name)) IN
       outcome' = Reported("_transform", r.called, r.error)
  /\ UNCHANGED <<direction, pipeTo, composed, written, emitted>>
  /\ UNCHANGED tfAside

Ordered_NeverReversed(transformers, d) == transformers

\* The order the transformers are chained in.
Ordered(transformers, d) ==
  IF d = "FromFilesystem" THEN Reverse(transformers) ELSE transformers

Bound_ReturnedOnly(transformers, d) ==
  LET stages == Ordered(transformers, d) IN
  [t \in Transformers |->
     IF Len(stages) > 0 /\ t = stages[Len(stages)] THEN d ELSE direction[t]]

\* The directions once every transformer of the list is bound to d.
Bound(transformers, d) ==
  [t \in Transformers |->
     IF \E i \in DOMAIN transformers : transformers[i] = t THEN d ELSE direction[t]]

\* Each stage piped into the next one.
Piped(stages) ==
  [t \in Transformers |->
     IF \E i \in 1..(Len(stages) - 1) : stages[i] = t
     THEN stages[(CHOOSE i \in 1..(Len(stages) - 1) : stages[i] = t) + 1]
     ELSE pipeTo[t]]

\* Transformer.applyTransformers(transformers, direction)
applyTransformers(transformers, d) ==
  /\ \A i \in DOMAIN transformers : direction[transformers[i]] # Unborn
  /\ IF ~isValidDirection(d)
     THEN /\ outcome' = Threw("applyTransformers", d, "Direction is invalid")
          /\ UNCHANGED <<direction, pipeTo, composed>>
     ELSE /\ composed = NoChain
          /\ LET stages == Ordered(transformers, d)
                 end == IF Len(stages) = 0 THEN "through" ELSE stages[Len(stages)]
             IN /\ direction' = Bound(transformers, d)
                /\ pipeTo' = Piped(stages)
                /\ composed' = [transformers |-> transformers, direction |-> d,
                                returned |-> end]
                /\ outcome' = Returned("applyTransformers", d, end)
  /\ UNCHANGED <<written, emitted>>
  /\ UNCHANGED tfAside

RECURSIVE StagesTo(_)
\* The stages a file passes to come out of the stream `end`, following the pipes.
StagesTo(end) ==
  IF end \notin Transformers THEN <<>>
  ELSE LET from == {t \in Transformers : pipeTo[t] = end} IN
       IF from = {} THEN <<end>>
       ELSE Append(StagesTo(CHOOSE t \in from : TRUE), end)

RECURSIVE Through(_, _)
\* A file passing the stages in turn: what the last one calls back with.
Through(stages, file) ==
  IF stages = <<>> THEN [called |-> "none", error |-> "none", out |-> <<file>>]
  ELSE LET r == Transform(stages[1], direction[stages[1]], file) IN
       IF r.error # "none" THEN r ELSE Through(Tail(stages), r.out[1])

throughObj_Drops(files, file) == files

\* through2.obj(): a stream that emits what it is given.
throughObj(files, file) == Append(files, file)

\* A file is written to the head of the chain and runs through it.
Write(name) ==
  /\ composed # NoChain
  /\ Len(written) < MaxFiles
  /\ written' = Append(written, File(name))
  /\ IF composed.returned = "through"
     THEN /\ emitted' = throughObj(emitted, File(name))
          /\ outcome' = Reported("write", "none", "none")
     ELSE LET r == Through(StagesTo(composed.returned), File(name)) IN
          /\ emitted' = emitted \o r.out
          /\ outcome' = Reported("write", r.called, r.error)
  /\ UNCHANGED <<direction, pipeTo, composed>>
  /\ UNCHANGED tfAside

TfNext ==
  \/ \E t \in Transformers, d \in DirectionArgs : constructor(t, d)
  \/ \E t \in Transformers, d \in DirectionArgs : withDirection(t, d)
  \/ \E t \in Transformers, name \in FileNames : _transform(t, name)
  \/ \E transformers \in Lists, d \in DirectionArgs : applyTransformers(transformers, d)
  \/ \E name \in FileNames : Write(name)

----
\* PushStream: one push run

\* Source files: node files, one of them a type definition (isTypeDefinition),
\* and reference config files (isAtviseReferenceConfig).
NodeFiles == {"n1", "n2"}
ReferenceFiles == {"r1", "r2"}
PushFiles == NodeFiles \cup ReferenceFiles

isTypeDefinition(f) == f = "n2"
isAtviseReferenceConfig(f) == f \in ReferenceFiles

Pipes_FilterLate ==
  <<"mappingStream", "useTransformers", "typeDefinitionFilter", "atvReferenceFilter",
    "typeDefinitionFilter.restore", "nodeFileStream", "writeStream">>

\* The pipes from srcStream to writeStream, in their order.
Pipes ==
  <<"mappingStream", "typeDefinitionFilter", "atvReferenceFilter", "useTransformers",
    "typeDefinitionFilter.restore", "nodeFileStream", "writeStream">>

RECURSIVE Flow(_, _)
\* The streams file f runs through from pipe i on: a filter hands a file it does
\* not let pass to its restore stream, from where the file goes on if that
\* stream is piped further down, and where it stays if not.
Flow(f, i) ==
  IF i > Len(Pipes) THEN <<>>
  ELSE IF Pipes[i] = "typeDefinitionFilter" /\ isTypeDefinition(f)
       THEN LET down == {j \in DOMAIN Pipes :
                           j > i /\ Pipes[j] = "typeDefinitionFilter.restore"}
            IN <<Pipes[i]>>
                 \o (IF down = {} THEN <<"typeDefinitionFilter.restore">>
                     ELSE Flow(f, CHOOSE j \in down : TRUE))
       ELSE IF Pipes[i] = "atvReferenceFilter" /\ isAtviseReferenceConfig(f)
            THEN <<Pipes[i], "atvReferenceFilter.restore">>
            ELSE <<Pipes[i]>> \o Flow(f, i + 1)

\* The streams of a flow, as a set.
Streams_Of(flow) == {flow[i] : i \in DOMAIN flow}

\* States of a server operation that is under way.
Running == {"writing", "creating", "adding"}

\* States of an addReference operation.
Reference == {"adding", "added", "addFailed"}

\* No PushStream exists.
PsInit ==
  /\ pushStream = "none"
  /\ srcStream = {}
  /\ restore = {}
  /\ operation = [f \in PushFiles |-> "none"]
  /\ visited = [f \in PushFiles |-> {}]
  /\ returned = [read |-> FALSE, buffer |-> {}]

\* new PushStream(srcStream) for a source that will emit the files of batch; the
\* caller reads the returned stream (a 'data' listener) or does not.
PushStream(batch, read) ==
  /\ pushStream = "none"
  /\ pushStream' = "pushing"
  /\ srcStream' = batch
  /\ returned' = [read |-> read, buffer |-> {}]
  /\ UNCHANGED <<restore, operation, visited>>
  /\ UNCHANGED psAside

\* The source emits a file, which runs down the pipes: to writeStream, or into
\* the restore stream of atvReferenceFilter, which nothing reads yet.
SourceData(f) ==
  /\ pushStream = "pushing"
  /\ f \in srcStream
  /\ srcStream' = srcStream \ {f}
  /\ visited' = [visited EXCEPT ![f] = Streams_Of(Flow(f, 1))]
  /\ IF "atvReferenceFilter.restore" \in visited'[f]
     THEN /\ restore' = restore \cup {f}
          /\ UNCHANGED operation
     ELSE IF "writeStream" \in visited'[f]
          THEN /\ operation' = [operation EXCEPT ![f] = "writing"]
               /\ UNCHANGED restore
          ELSE UNCHANGED <<restore, operation>>
  /\ UNCHANGED returned
  /\ UNCHANGED pushStream
  /\ UNCHANGED psAside

\* The returned stream (createNodeStream) after it has emitted file f: the file
\* goes to the reader, or stays in the buffer of the stream.
Emits(f) == IF returned.read THEN returned ELSE [returned EXCEPT !.buffer = @ \cup {f}]

\* writeStream's write of f settles: done, and the file leaves the pipes; failed,
\* and the file is skipped; or the node does not exist and the file waits in
\* createNodeStream.
WriteSettles(f, result) ==
  /\ operation[f] = "writing"
  /\ operation' = [operation EXCEPT ![f] = result]
  /\ returned' = IF result = "written" THEN Emits(f) ELSE returned
  /\ visited' = [visited EXCEPT
                   ![f] = IF result \in {"written", "creating"}
                          THEN @ \cup {"createNodeStream"} ELSE @]
  /\ UNCHANGED <<pushStream, srcStream, restore>>
  /\ UNCHANGED psAside

\* createNodeStream's creation of the node of f settles.
CreateSettles(f, result) ==
  /\ operation[f] = "creating"
  /\ operation' = [operation EXCEPT ![f] = result]
  /\ returned' = IF result = "created" THEN Emits(f) ELSE returned
  /\ UNCHANGED <<pushStream, srcStream, restore, visited>>
  /\ UNCHANGED psAside

\* atvReferenceFilter.restore._readableState.buffer.length > 0
HasReferences == restore # {}

\* pushStream.once('finish', ...): the source has ended and writeStream and
\* createNodeStream have processed what they were given.  With reference config
\* files buffered the listener pipes the returned stream into
\* atvReferenceFilter.restore and that into addReferenceStream; the streams
\* start to flow in a later callback.  Else it ends the run.
Finish ==
  /\ pushStream = "pushing"
  /\ srcStream = {}
  /\ \A f \in PushFiles : operation[f] \notin Running
  /\ pushStream' = IF HasReferences THEN "referencing" ELSE "exited"
  /\ UNCHANGED <<srcStream, restore, operation, visited, returned>>
  /\ UNCHANGED psAside

\* The callback pipe() scheduled for the returned stream (resume): the files
\* nobody has read from it run into atvReferenceFilter.restore, behind the
\* reference config files buffered there.
Resume ==
  /\ pushStream = "referencing"
  /\ returned.buffer # {}
  /\ restore' = restore \cup returned.buffer
  /\ visited' = [f \in PushFiles |->
                   IF f \in returned.buffer
                   THEN visited[f] \cup {"atvReferenceFilter.restore"}
                   ELSE visited[f]]
  /\ returned' = [returned EXCEPT !.buffer = {}]
  /\ UNCHANGED <<pushStream, srcStream, operation>>
  /\ UNCHANGED psAside

\* addReferenceStream reads a file from atvReferenceFilter.restore: for a
\* reference config file it starts adding its edges.  The reference config files
\* were buffered in the restore stream and come first; the files piped in from
\* the returned stream follow, and are in the restore stream before
\* addReferenceStream gets its first file.
AddReference(f) ==
  /\ pushStream = "referencing"
  /\ returned.buffer = {}
  /\ f \in restore
  /\ ~isAtviseReferenceConfig(f) => \A g \in restore : ~isAtviseReferenceConfig(g)
  /\ restore' = restore \ {f}
  /\ operation' = IF isAtviseReferenceConfig(f)
                  THEN [operation EXCEPT ![f] = "adding"]
                  ELSE operation
  /\ visited' = [visited EXCEPT ![f] = @ \cup {"addReferenceStream"}]
  /\ UNCHANGED <<pushStream, srcStream, returned>>
  /\ UNCHANGED psAside

\* The addReference operation of f settles.
AddReferenceSettles(f, result) ==
  /\ operation[f] = "adding"
  /\ operation' = [operation EXCEPT ![f] = result]
  /\ UNCHANGED <<pushStream, srcStream, restore, visited, returned>>
  /\ UNCHANGED psAside

\* addReferenceStream's 'finish' listener: PushStream#endPushTask.
endPushTask ==
  /\ pushStream = "referencing"
  /\ returned.buffer = {}
  /\ restore = {}
  /\ \A f \in PushFiles : operation[f] \notin Running
  /\ pushStream' = "exited"
  /\ UNCHANGED <<srcStream, restore, operation, visited, returned>>
  /\ UNCHANGED psAside

PsNext ==
  \/ \E batch \in SUBSET PushFiles, read \in BOOLEAN : PushStream(batch, read)
  \/ \E f \in PushFiles : SourceData(f)
  \/ \E f \in PushFiles, result \in {"written", "writeFailed", "creating"} :
       WriteSettles(f, result)
  \/ \E f \in PushFiles, result \in {"created", "createFailed"} : CreateSettles(f, result)
  \/ Finish
  \/ Resume
  \/ \E f \in PushFiles : AddReference(f)
  \/ \E f \in PushFiles, result \in {"added", "addFailed"} : AddReferenceSettles(f, result)
  \/ endPushTask

----
\* AtviseFile.encodeValue and AtviseFile.decodeValue

\* Bounds: the largest number, the longest string.
MaxNumber == 12
MaxLen == 3

\* Texts and buffers are sequences of characters (one byte each).
Letters == {"a", " "}

\* JavaScript values, tagged with their type.  A value uses the field of its kind:
\* n for a number or the time of a Date, s for a string or the bytes of a Buffer,
\* b for a boolean, a for the elements of an array: numbers for the two
\* components of a 64 bit integer, values for the array of a node's values.
Blank == [kind |-> "none", n |-> 0, s |-> <<>>, b |-> FALSE, a |-> <<>>]
JsNull == [Blank EXCEPT !.kind = "null"]
NaN == [Blank EXCEPT !.kind = "NaN"]
Bool(b) == [Blank EXCEPT !.kind = "boolean", !.b = b]
Number(n) == [Blank EXCEPT !.kind = "number", !.n = n]
String(s) == [Blank EXCEPT !.kind = "string", !.s = s]
Date(n) == [Blank EXCEPT !.kind = "Date", !.n = n]
Array(a) == [Blank EXCEPT !.kind = "Array", !.a = a]
Buffer(s) == [Blank EXCEPT !.kind = "Buffer", !.s = s]
NodeIdValue(s) == [Blank EXCEPT !.kind = "NodeId", !.s = s]

\* What a throwing call leaves instead of a value.
SyntaxError == [Blank EXCEPT !.kind = "SyntaxError"]
TypeError == [Blank EXCEPT !.kind = "TypeError"]
CoerceError == [Blank EXCEPT !.kind = "Error"]

Numbers == 0..MaxNumber
Texts == UNION {[1..n -> Letters] : n \in 0..MaxLen}

\* The two 32 bit components of a 64 bit integer.
Components == {0, 1, 10}

\* node-opcua's DataType, as far as the model goes.
DataTypes ==
  {"Boolean", "Int32", "String", "NodeId", "DateTime", "UInt64", "Int64", "ByteString"}

\* The text of a node id: "ns=1;s=a".
NodeIdText == <<"n", "s", "=", "1", ";", "s", "=", "a">>

\* The values of a data type, null apart.
ValuesOf(type) ==
  CASE type = "Boolean" -> {Bool(b) : b \in BOOLEAN}
    [] type = "Int32" -> {Number(n) : n \in Numbers}
    [] type = "String" -> {String(s) : s \in Texts}
    [] type = "NodeId" -> {NodeIdValue(NodeIdText)}
    [] type = "DateTime" -> {Date(n) : n \in Numbers}
    [] type \in {"UInt64", "Int64"} -> {Array(<<hi, lo>>) : hi \in Components, lo \in Components}
    [] type = "ByteString" -> {Buffer(s) : s \in Texts}

Digit == <<"0", "1", "2", "3", "4", "5", "6", "7", "8", "9">>

IsDigit(c) == \E d \in 1..10 : Digit[d] = c

DigitValue(c) == (CHOOSE d \in 1..10 : Digit[d] = c) - 1

RECURSIVE numberToString(_)
\* Number#toString of a natural number: its decimal digits.
numberToString(n) ==
  IF n < 10 THEN <<Digit[n + 1]>>
  ELSE Append(numberToString(n \div 10), Digit[(n % 10) + 1])

RECURSIVE toString(_)
\* value.toString(); that of an array of values is its elements' texts, joined
\* by commas.
toString(v) ==
  CASE v.kind = "boolean" -> IF v.b THEN <<"t", "r", "u", "e">> ELSE <<"f", "a", "l", "s", "e">>
    [] v.kind = "number" -> numberToString(v.n)
    [] v.kind \in {"string", "Buffer", "NodeId"} -> v.s
    [] v.kind = "Array" ->
         IF v.a = <<>> THEN <<>>
         ELSE IF Len(v.a) = 1 THEN toString(v.a[1])
         ELSE toString(v.a[1]) \o <<",">> \o toString([v EXCEPT !.a = Tail(v.a)])

RECURSIVE trimStart(_)
trimStart(s) == IF s # <<>> /\ s[1] = " " THEN trimStart(Tail(s)) ELSE s

RECURSIVE trimEnd(_)
trimEnd(s) ==
  IF s # <<>> /\ s[Len(s)] = " " THEN trimEnd(SubSeq(s, 1, Len(s) - 1)) ELSE s

\* String#trim
trim(s) == trimEnd(trimStart(s))

RECURSIVE digitsValue(_, _)
\* The number the leading digits of s stand for, after the digits valued n.
digitsValue(s, n) ==
  IF s # <<>> /\ IsDigit(s[1])
  THEN digitsValue(Tail(s), (10 * n) + DigitValue(s[1]))
  ELSE n

\* Number.parseInt(s, 10): leading whitespace is skipped, the digits that follow
\* are read, and without any digit the result is NaN.
parseInt(s) ==
  LET t == trimStart(s) IN
  IF t # <<>> /\ IsDigit(t[1]) THEN Number(digitsValue(t, 0)) ELSE NaN

\* JSON.stringify of an array of two numbers.
stringify(a) ==
  <<"[">> \o numberToString(a[1]) \o <<",">> \o numberToString(a[2]) \o <<"]">>

\* The text of a JSON number, as far as naturals go: digits, no leading zero.
IsNumberText(s) ==
  /\ s # <<>>
  /\ \A i \in DOMAIN s : IsDigit(s[i])
  /\ Len(s) = 1 \/ s[1] # "0"

\* JSON.parse of a text: a natural number, true, false, null or an array of two
\* numbers, with whitespace around the tokens; any other text throws.
parse(s) ==
  LET t == trim(s)
      commas == {i \in DOMAIN t : t[i] = ","}
      comma == CHOOSE i \in commas : TRUE
      first == trim(SubSeq(t, 2, comma - 1))
      second == trim(SubSeq(t, comma + 1, Len(t) - 1))
  IN IF IsNumberText(t) THEN Number(digitsValue(t, 0))
     ELSE IF t = <<"t", "r", "u", "e">> THEN Bool(TRUE)
     ELSE IF t = <<"f", "a", "l", "s", "e">> THEN Bool(FALSE)
     ELSE IF t = <<"n", "u", "l", "l">> THEN JsNull
     ELSE IF /\ Len(t) >= 2
             /\ t[1] = "["
             /\ t[Len(t)] = "]"
             /\ Cardinality(commas) = 1
          THEN IF IsNumberText(first) /\ IsNumberText(second)
               THEN Array(<<digitsValue(first, 0), digitsValue(second, 0)>>)
               ELSE SyntaxError
          ELSE SyntaxError

\* node-opcua's resolveNodeId for a text: the node id the text is the string
\* form of; a text that is neither an alias nor of a node id's form throws.
resolveNodeId(stringValue) ==
  IF stringValue = NodeIdText THEN NodeIdValue(stringValue) ELSE CoerceError

\* The data types with an entry in Encoder.
Encoders == {"DateTime", "UInt64", "Int64", "ByteString"}

\* The byte new Buffer(array) makes of an element that is a Buffer: the number
\* its text stands for, which is 0 for an empty text and for a text that is no
\* number (NaN).
ByteOf(x) ==
  CASE trim(x.s) = <<>> \/ ~IsDigit(trim(x.s)[1]) -> "NUL"

\* Encoder[type](v): a text, or for a ByteString a Buffer of the same bytes.
\* date.getTime() of a value that is no Date (an array of Dates) throws a
\* TypeError; new Buffer(binaryArray, 'binary') of an array of Buffers is a
\* Buffer with one byte for each element.
Encoder(type, v) ==
  CASE type = "DateTime" -> IF v.kind = "Date" THEN String(numberToString(v.n))
                            ELSE TypeError
    [] type \in {"UInt64", "Int64"} -> String(stringify(v.a))
    [] type = "ByteString" -> IF v.kind = "Array"
                              THEN Buffer([i \in DOMAIN v.a |-> ByteOf(v.a[i])])
                              ELSE Buffer(v.s)

\* The data types with an entry in Decoder.
Decoders == {"Boolean", "String", "NodeId", "DateTime", "UInt64", "Int64"}

\* Decoder[type](stringValue)
Decoder(type, stringValue) ==
  CASE type = "Boolean" -> Bool(stringValue = <<"t", "r", "u", "e">>)
    [] type = "String" -> String(stringValue)
    [] type = "NodeId" -> resolveNodeId(stringValue)
    [] type = "DateTime" -> LET ms == parseInt(stringValue) IN
                            IF ms = NaN THEN NaN ELSE Date(ms.n)
    [] type \in {"UInt64", "Int64"} -> parse(stringValue)

\* Buffer.from(x) for a text or a Buffer: a Buffer of its bytes.  The error the
\* argument's evaluation threw goes on to the caller.
BufferFrom(x) == IF x = TypeError THEN TypeError ELSE Buffer(x.s)

encodeValue_NullAsText(v, type) ==
  IF v = JsNull THEN Buffer(<<"n", "u", "l", "l">>)
  ELSE BufferFrom(IF type \in Encoders THEN Encoder(type, v) ELSE String(trim(toString(v))))

encodeValue_Untrimmed(v, type) ==
  IF v = JsNull THEN BufferFrom(String(<<>>))
  ELSE BufferFrom(IF type \in Encoders THEN Encoder(type, v) ELSE String(toString(v)))

\* AtviseFile.encodeValue(value, dataType), v being value.value
encodeValue(v, type) ==
  IF v = JsNull THEN BufferFrom(String(<<>>))
  ELSE BufferFrom(IF type \in Encoders THEN Encoder(type, v) ELSE String(trim(toString(v))))

decodeValue_AlwaysText(buffer, type) ==
  IF buffer = JsNull \/ Len(buffer.s) = 0 THEN JsNull
  ELSE IF type \in Decoders THEN Decoder(type, buffer.s)
  ELSE String(buffer.s)

\* AtviseFile.decodeValue(buffer, dataType)
decodeValue(buffer, type) ==
  IF buffer = JsNull \/ Len(buffer.s) = 0 THEN JsNull
  ELSE IF type \in Decoders THEN Decoder(type, buffer.s)
  ELSE buffer

\* Nothing to encode or decode.
CodecIdle ==
  /\ step = "idle"
  /\ dataType = "Null"
  /\ value = Blank
  /\ contents = Blank
  /\ decoded = Blank

\* Contents of files on disk: any text, and texts the decoders know.
FileContents ==
  {Buffer(t) : t \in Texts}
    \cup {Buffer(<<"t", "r", "u", "e">>), Buffer(<<"7">>),
          Buffer(<<"[", "1", ",", "0", "]">>), Buffer(NodeIdText)}

\* A node value of some data type to store, or the contents of a file to read:
\* none (null), empty or some text.
CodecInputs ==
  \/ /\ step = "value"
     /\ dataType \in DataTypes
     /\ value \in ValuesOf(dataType) \cup {JsNull}
     /\ contents = Blank
     /\ decoded = Blank
  \/ /\ step = "encoded"
     /\ dataType \in DataTypes
     /\ value = Blank
     /\ contents \in {JsNull} \cup FileContents
     /\ decoded = Blank

\* The value is encoded to file contents.
Encodes ==
  /\ step = "value"
  /\ contents' = encodeValue(value, dataType)
  /\ step' = "encoded"
  /\ UNCHANGED <<dataType, value, decoded>>
  /\ UNCHANGED codecAside

\* The file contents are decoded.
Decodes ==
  /\ step = "encoded"
  /\ decoded' = decodeValue(contents, dataType)
  /\ step' = "decoded"
  /\ UNCHANGED <<dataType, value, contents>>
  /\ UNCHANGED codecAside

CodecNext == Encodes \/ Decodes

----
\* AtviseFile: storage paths and metadata

\* Bound: the dot-separated tokens after a file's base name.
MaxTokens == 3

\* The value of a property that is not set.
Undefined == "undefined"

\* Object.keys(DataType), as far as the model goes.
types == <<"Boolean", "String", "DateTime", "ByteString", "XmlElement">>

\* String#toLowerCase of a data type's name.
toLowerCase(name) ==
  CASE name = "Boolean" -> "boolean"
    [] name = "String" -> "string"
    [] name = "DateTime" -> "datetime"
    [] name = "ByteString" -> "bytestring"
    [] name = "XmlElement" -> "xmlelement"

typeExtensions == [i \in DOMAIN types |-> toLowerCase(types[i])]

ExtensionForDataType == [t \in {"Boolean", "XmlElement"} |->
                           IF t = "Boolean" THEN "bool" ELSE "xml"]

\* reverseObject: keys and values switched.
reverseObject(obj) ==
  [v \in {obj[k] : k \in DOMAIN obj} |-> CHOOSE k \in DOMAIN obj : obj[k] = v]

DataTypeForExtension == reverseObject(ExtensionForDataType)

extensionForDataType_LowercaseOnly(type) == toLowerCase(type)

\* extensionForDataType
extensionForDataType(type) ==
  IF type \in DOMAIN ExtensionForDataType THEN ExtensionForDataType[type]
  ELSE toLowerCase(type)

VariantArrayType == {"Scalar", "Array", "Matrix"}

\* The values of the type definitions' node ids.
VariableTypeDefinition == "i=62"
PropertyTypeDefinition == "i=68"
OctetStream == "VariableTypes.ATVISE.Resource.OctetStream"
Display == "VariableTypes.ATVISE.Display"
HtmlHelp == "VariableTypes.ATVISE.HtmlHelp"
Png == "VariableTypes.ATVISE.Resource.Png"

\* A type definition of a project, unknown to atscm.
Custom == "VariableTypes.PROJECT.Custom"

\* fileExtension of a type that has none.
NoFileExtension == "false"

\* ./Types: the atvise types, in order.  A resource type keeps the extension of
\* the node's name.
AtviseTypes ==
  << [typeDefinition |-> Display, identifier |-> "display", dataType |-> "XmlElement",
      fileExtension |-> "xml", keepExtension |-> FALSE],
     [typeDefinition |-> HtmlHelp, identifier |-> "help", dataType |-> "ByteString",
      fileExtension |-> "html", keepExtension |-> FALSE],
     [typeDefinition |-> Png, identifier |-> "png", dataType |-> "ByteString",
      fileExtension |-> NoFileExtension, keepExtension |-> TRUE] >>

TypeDefinitions ==
  {VariableTypeDefinition, PropertyTypeDefinition, OctetStream, Custom}
    \cup {AtviseTypes[i].typeDefinition : i \in DOMAIN AtviseTypes}

\* AtviseTypesByValue has an entry for the type definition.
IsAtviseType(typeDefinition) ==
  \E i \in DOMAIN AtviseTypes : AtviseTypes[i].typeDefinition = typeDefinition

\* AtviseTypesByValue[typeDefinition]
AtviseTypesByValue(typeDefinition) ==
  AtviseTypes[CHOOSE i \in DOMAIN AtviseTypes :
                AtviseTypes[i].typeDefinition = typeDefinition]

\* A relative path: the base name without dots and the tokens after it.
Path(base, exts) == [base |-> base, exts |-> exts]

\* nodeId.filePath of the nodes: a node of the tree, a resource with a file name.
FilePaths == {Path("AGENT/Main", <<>>), Path("RESOURCES/logo", <<"png">>)}

\* Tokens of files found on disk.
DiskTokens == {"array", "matrix", "bool", "string", "prop", "display", "png", "var", ""}

\* A token a directory's name may end in.
DirTokens == {"display"}

\* A Date object showing the time ms, or no Date (undefined).
Mtime(ms) == [set |-> TRUE, ms |-> ms]
NoMtime == [set |-> FALSE, ms |-> 0]

NoReadResult ==
  [nodeId |-> Path("", <<>>), hasValue |-> FALSE, value |-> Blank,
   dataType |-> Undefined, arrayType |-> Undefined, typeDefinition |-> Undefined,
   timestamp |-> 0, mtime |-> NoMtime]

\* A value of a data type, as node-opcua hands it over.
ValueOf(type) ==
  CASE type = "Boolean" -> Bool(TRUE)
    [] type \in {"String", "XmlElement"} -> String(<<"a">>)
    [] type = "DateTime" -> Date(7)
    [] type = "ByteString" -> Buffer(<<"a">>)

\* readResult.value.value of a variable of a data type and an array type: null,
\* a value, or for an array or a matrix an Array of values.
VariantValues(type, arrayType) ==
  {JsNull,
   IF arrayType = "Scalar" THEN ValueOf(type)
   ELSE Array(<<ValueOf(type), ValueOf(type)>>)}

\* The read results: value is readResult.value.value, timestamp the time the
\* server gave, mtime the Date made of it, if any.
ReadResults ==
  UNION {{[nodeId |-> n, hasValue |-> TRUE, value |-> v, dataType |-> types[t],
           arrayType |-> a, typeDefinition |-> d, timestamp |-> m.ms, mtime |-> m] :
            v \in VariantValues(types[t], a)} :
          n \in FilePaths, t \in DOMAIN types, a \in VariantArrayType,
          d \in TypeDefinitions, m \in {Mtime(ms) : ms \in Times} \cup {NoMtime}}
  \cup {[nodeId |-> n, hasValue |-> FALSE, value |-> Blank, dataType |-> Undefined,
         arrayType |-> Undefined, typeDefinition |-> d, timestamp |-> 0,
         mtime |-> NoMtime] :
          n \in FilePaths, d \in TypeDefinitions}

\* AtviseFile.pathForReadResult: the tokens for the node's type.
TypeTokens(type, typeDefinition) ==
  IF typeDefinition = VariableTypeDefinition THEN <<extensionForDataType(type)>>
  ELSE IF typeDefinition = PropertyTypeDefinition
       THEN <<"prop", extensionForDataType(type)>>
       ELSE LET known == IsAtviseType(typeDefinition)
                identifier == IF known THEN AtviseTypesByValue(typeDefinition).identifier
                              ELSE "var"
                fileExtension == IF known
                                 THEN AtviseTypesByValue(typeDefinition).fileExtension
                                 ELSE NoFileExtension
                keepExtension == known /\ AtviseTypesByValue(typeDefinition).keepExtension
            IN IF keepExtension THEN <<>>
               ELSE <<identifier,
                      IF fileExtension # NoFileExtension THEN fileExtension
                      ELSE extensionForDataType(type)>>

\* AtviseFile.pathForReadResult: the token for the array type.
ArrayTokens(arrayType) ==
  IF arrayType # "Scalar"
  THEN <<IF arrayType = "Array" THEN "array" ELSE "matrix">>
  ELSE <<>>

\* AtviseFile.pathForReadResult
pathForReadResult(r) ==
  Path(r.nodeId.base,
       r.nodeId.exts \o TypeTokens(r.dataType, r.typeDefinition) \o ArrayTokens(r.arrayType))

\* No file; contents is null until a file is given some.
NoFile ==
  [path |-> Path("", <<>>), dir |-> "none", contents |-> JsNull,
   _dataType |-> Undefined, _arrayType |-> Undefined, _typeDefinition |-> Undefined,
   mtime |-> NoMtime]

\* new AtviseFile({ path }) in a directory whose name ends in the token dir.
FileAt(path, dir) == [NoFile EXCEPT !.path = path, !.dir = dir]

\* Nothing popped, nothing left.
NoExtensions == [rest |-> <<>>, popped |-> <<>>]

\* The metadata _getMetadata works on: the file's fields and its local extensions.
Metadata(arrayType, type, typeDefinition, exts, popped) ==
  [_arrayType |-> arrayType, _dataType |-> type, _typeDefinition |-> typeDefinition,
   extensions |-> exts, popped |-> popped]

\* extensions[extensions.length - 1]
LastExtension(m) ==
  IF m.extensions = <<>> THEN Undefined ELSE m.extensions[Len(m.extensions)]

\* extensions.pop(), noting which step popped the token.
Pop(m, by) ==
  [m EXCEPT !.extensions = SubSeq(@, 1, Len(@) - 1),
            !.popped = Append(@, <<by, LastExtension(m)>>)]

\* _getMetadata's start: the default array type, the extensions of the relative
\* path, and before them the extension of the directory's name if it has one.
StartMetadata(f) ==
  Metadata("Scalar", f._dataType, f._typeDefinition,
           (IF f.dir = "none" THEN <<>> ELSE <<f.dir>>) \o f.path.exts, <<>>)

HandleArray(m) ==
  IF LastExtension(m) = "array" THEN [Pop(m, "array") EXCEPT !._arrayType = "Array"]
  ELSE m

HandleMatrix(m) ==
  IF LastExtension(m) = "matrix" THEN [Pop(m, "matrix") EXCEPT !._arrayType = "Matrix"]
  ELSE m

\* The last extension is the lowercase name of a data type.
HandleTypeExtension(m) ==
  IF \E i \in DOMAIN typeExtensions : typeExtensions[i] = LastExtension(m)
  THEN [Pop(m, "type") EXCEPT
          !._dataType = types[CHOOSE i \in DOMAIN typeExtensions :
                                typeExtensions[i] = LastExtension(m)]]
  ELSE m

\* The last extension is a short extension ("bool" for Boolean).
HandleWrapped(m) ==
  IF LastExtension(m) \in DOMAIN DataTypeForExtension
  THEN [Pop(m, "wrapped") EXCEPT !._dataType = DataTypeForExtension[LastExtension(m)]]
  ELSE m

GotVariable(m) ==
  IF Len(m.extensions) = 0 THEN [m EXCEPT !._typeDefinition = VariableTypeDefinition]
  ELSE m

HandleProp(m) ==
  IF LastExtension(m) = "prop"
  THEN [Pop(m, "prop") EXCEPT !._typeDefinition = PropertyTypeDefinition]
  ELSE m

complete_Either(m) == m._dataType # Undefined \/ m._typeDefinition # Undefined

\* complete
complete(m) == m._dataType # Undefined /\ m._typeDefinition # Undefined

\* extensions.includes(identifier)
Includes(m, identifier) == \E i \in DOMAIN m.extensions : m.extensions[i] = identifier

FoundAtType_Last(m) ==
  LET found == {i \in DOMAIN AtviseTypes : Includes(m, AtviseTypes[i].identifier)}
  IN IF found = {} THEN 0 ELSE CHOOSE i \in found : \A j \in found : j <= i

\* The first atvise type, in the order of AtviseTypesByIdentifier's keys, whose
\* identifier is among the extensions; 0 if there is none.
FoundAtType(m) ==
  LET found == {i \in DOMAIN AtviseTypes : Includes(m, AtviseTypes[i].identifier)}
  IN IF found = {} THEN 0 ELSE CHOOSE i \in found : \A j \in found : i <= j

HandleAtviseTypes(m) ==
  IF ~complete(m) /\ FoundAtType(m) # 0
  THEN [m EXCEPT !._typeDefinition = AtviseTypes[FoundAtType(m)].typeDefinition,
                 !._dataType = AtviseTypes[FoundAtType(m)].dataType]
  ELSE m

Fallback_Never(m) == m

Fallback(m) ==
  IF ~complete(m)
  THEN [m EXCEPT !._typeDefinition = OctetStream, !._dataType = "ByteString"]
  ELSE m

\* _getMetadata up to the step for properties.
VariableAndProperty(f) ==
  HandleProp(GotVariable(HandleWrapped(
    HandleTypeExtension(HandleMatrix(HandleArray(StartMetadata(f)))))))

\* AtviseFile#_getMetadata
_getMetadata(f) == Fallback(HandleAtviseTypes(VariableAndProperty(f)))

\* File#relative of a file: the directory, whose name may end in a dot and a
\* token, the base name and the tokens after it.
Relative(dir, base, exts) == [dir |-> dir, base |-> base, exts |-> exts]

NoIdPath == Relative("none", "", <<>>)

\* What is left of a relative path cut at the dot of its directory's name.
BeforeDir == Relative("cut", "", <<>>)

\* String#startsWith for two tokens of the model: the empty token starts each.
StartsWith(token, prefix) == prefix = "" \/ prefix = token

\* idPath.split(`.${exts}`)[0] for the extensions ExtensionRegExp matched: the
\* path up to the first dot that these extensions follow, which is the dot of
\* the directory's name if the extensions start what comes after it.
SplitFirst(f) ==
  IF f.dir # "none" /\ Len(f.path.exts) = 1 /\ StartsWith(f.dir, f.path.exts[1])
  THEN BeforeDir
  ELSE Relative(f.dir, f.path.base, <<>>)

\* No path or read result to work on.
PathIdle ==
  /\ at = "idle"
  /\ readResult = NoReadResult
  /\ atviseFile = NoFile
  /\ extensions = NoExtensions
  /\ idPath = NoIdPath
  /\ thrown = "none"

\* A read result to make a file for, or a file found on disk.
PathInputs ==
  /\ \/ /\ at = "readResult"
        /\ readResult \in ReadResults
        /\ atviseFile = NoFile
     \/ /\ at = "file"
        /\ readResult = NoReadResult
        /\ \E exts \in UNION {[1..n -> DiskTokens] : n \in 0..MaxTokens},
              dir \in DirTokens \cup {"none"} :
             atviseFile = FileAt(Path("AGENT/Main", exts), dir)
  /\ extensions = NoExtensions
  /\ idPath = NoIdPath
  /\ thrown = "none"

\* AtviseFile.fromReadResult(readResult): the options of the new file are
\* evaluated in their order, the path first, then the contents, where
\* encodeValue may throw, then the mtime.
fromReadResult ==
  /\ at = "readResult"
  /\ IF ~readResult.hasValue
     THEN /\ thrown' = "no value"
          /\ at' = "threw"
          /\ UNCHANGED <<atviseFile, readResult>>
     ELSE LET encoded == encodeValue(readResult.value, readResult.dataType)
              mtime == IF readResult.mtime.set
                       THEN Mtime(normalizeMtime(readResult.mtime.ms))
                       ELSE NoMtime
          IN IF encoded = TypeError
             THEN /\ thrown' = "TypeError"
                  /\ at' = "threw"
                  /\ UNCHANGED <<atviseFile, readResult>>
             ELSE /\ atviseFile' =
                       [path |-> pathForReadResult(readResult), dir |-> "none",
                        contents |-> encoded,
                        _dataType |-> readResult.dataType,
                        _arrayType |-> readResult.arrayType,
                        _typeDefinition |-> readResult.typeDefinition,
                        mtime |-> mtime]
                  \* normalizeMtime changes the Date it is given
                  /\ readResult' = [readResult EXCEPT !.mtime = mtime]
                  /\ at' = "created"
                  /\ UNCHANGED thrown
  /\ UNCHANGED <<extensions, idPath>>
  /\ UNCHANGED pathAside

\* The file fromReadResult made of readResult is read from disk later on.
ReadsBack ==
  /\ at = "readResult"
  /\ readResult.hasValue
  /\ encodeValue(readResult.value, readResult.dataType) # TypeError
  /\ atviseFile' = FileAt(pathForReadResult(readResult), "none")
  \* fromReadResult has normalized the Date of the read result
  /\ readResult' = [readResult EXCEPT
                      !.mtime = IF @.set THEN Mtime(normalizeMtime(@.ms)) ELSE NoMtime]
  /\ at' = "file"
  /\ UNCHANGED <<extensions, idPath, thrown>>
  /\ UNCHANGED pathAside

\* The getters dataType, arrayType and typeDefinition of a file without metadata:
\* _getMetadata runs.
Infers ==
  /\ at = "file"
  /\ LET m == _getMetadata(atviseFile) IN
       /\ atviseFile' = [atviseFile EXCEPT !._dataType = m._dataType, !._arrayType = m._arrayType,
                               !._typeDefinition = m._typeDefinition]
       /\ extensions' = [rest |-> m.extensions, popped |-> m.popped]
  /\ at' = "metadata"
  /\ UNCHANGED <<readResult, idPath, thrown>>
  /\ UNCHANGED pathAside

\* AtviseFile#nodeId up to NodeId.fromFilePath: the extensions are cut off the
\* relative path unless the file's type keeps them; a path without a dot has no
\* match to take them from.
GetsNodeId ==
  /\ at \in {"metadata", "created"}
  /\ IF IsAtviseType(atviseFile._typeDefinition)
        /\ AtviseTypesByValue(atviseFile._typeDefinition).keepExtension
     THEN /\ idPath' = Relative(atviseFile.dir, atviseFile.path.base,
                                 atviseFile.path.exts)
          /\ at' = "nodeId"
          /\ UNCHANGED thrown
     ELSE IF atviseFile.path.exts = <<>>
          THEN /\ thrown' = "TypeError"
               /\ at' = "threw"
               /\ UNCHANGED idPath
          ELSE /\ idPath' = SplitFirst(atviseFile)
               /\ at' = "nodeId"
               /\ UNCHANGED thrown
  /\ UNCHANGED <<readResult, atviseFile, extensions>>
  /\ UNCHANGED pathAside

PathNext == fromReadResult \/ ReadsBack \/ Infers \/ GetsNodeId

----
\* Client.create

\* Bound: the seconds the clock runs.
MaxSeconds == 8

\* The two copies of Client.create: their timeout in milliseconds, and whether a
\* connect error is wrapped in an Error or rejected as a string.
Copies ==
  {[source |-> "Client.js", timeout |-> 5000, wraps |-> TRUE],
   [source |-> "AtviseFile.js", timeout |-> 3000, wraps |-> FALSE]}

NoPromise == [state |-> "none", value |-> "none"]
NoClient == [state |-> "none", source |-> "none", wraps |-> FALSE]
NoTimer == [state |-> "none", due |-> 0]

\* No client is being created.
ClientInit ==
  /\ now = 0
  /\ promise = NoPromise
  /\ client = NoClient
  /\ timer = NoTimer

\* resolve / reject of a promise: the first call settles it, later calls do
\* nothing.
Settle(p, to, result) ==
  IF p.state = "pending" THEN [state |-> to, value |-> result] ELSE p

\* Client.create(): a new client, the promise, the timer, the call of connect.
create ==
  /\ promise.state = "none"
  /\ \E copy \in Copies :
       /\ client' = [state |-> "connecting", source |-> copy.source,
                     wraps |-> copy.wraps]
       /\ timer' = [state |-> "armed", due |-> now + copy.timeout]
  /\ promise' = [state |-> "pending", value |-> "none"]
  /\ UNCHANGED now
  /\ UNCHANGED clientAside

\* A second passes.  A timer that is due stays armed until the event loop gets to
\* its callback, which may be later than its due time.
Tick ==
  /\ now < MaxSeconds * MsPerSecond
  /\ now' = now + MsPerSecond
  /\ UNCHANGED <<promise, client, timer>>
  /\ UNCHANGED clientAside

\* The callback of setTimeout: not before the timer is due.
TimerFires ==
  /\ timer.state = "armed"
  /\ timer.due <= now
  /\ timer' = [timer EXCEPT !.state = "fired"]
  /\ promise' = Settle(promise, "rejected", "Error: Connection timed out")
  /\ UNCHANGED <<now, client>>
  /\ UNCHANGED clientAside

\* The callback of client.connect, with or without err.
ConnectCallback ==
  /\ client.state = "connecting"
  /\ \E err \in BOOLEAN :
       IF err
       THEN /\ client' = [client EXCEPT !.state = "failed"]
            /\ promise' = Settle(promise, "rejected",
                                 IF client.wraps THEN "Error: err.message"
                                 ELSE "err.message")
       ELSE /\ client' = [client EXCEPT !.state = "connected"]
            /\ promise' = Settle(promise, "fulfilled", "client")
  /\ UNCHANGED <<now, timer>>
  /\ UNCHANGED clientAside

ClientNext == create \/ Tick \/ TimerFires \/ ConnectCallback

----
\* XMLTransformer: forced CDATA sections

\* Bound: the text contents of a document.
MaxTexts == 3

START_CDATA == "STARTCDATA"
END_CDATA == "ENDCDATA"

\* The tokens the builder and the replacements write.
OpenCData == "<![CDATA["
CloseCData == "]]>"

\* A text content: wrapped with forceCData or not, with a character the builder
\* must escape ("a<b") or without ("a").
TextContents == {[forced |-> f, special |-> sp] : f \in BOOLEAN, sp \in BOOLEAN}

Raw(text) == IF text.special THEN "a<b" ELSE "a"

\* The builder's entity escaping.
Escaped(text) == IF text.special THEN "a&lt;b" ELSE "a"

\* XMLTransformer.forceCData(string), as tokens.
forceCData(string) == <<START_CDATA, string, END_CDATA>>

\* The string assigned as text content of a node.
Assigned(text, string) == IF text.forced THEN forceCData(string) ELSE <<string>>

\* XMLTransformer#builder: whether the builder of the direction has cdata set.
builder(d) == d # "FromDB"

\* The builder's output for one node: with cdata, a text that needs escaping is
\* wrapped in a CDATA section as it is, else it is escaped.
Element(cdata, text) ==
  <<"<e>">>
    \o (IF cdata /\ text.special
        THEN <<OpenCData>> \o Assigned(text, Raw(text)) \o <<CloseCData>>
        ELSE Assigned(text, Escaped(text)))
    \o <<"</e>">>

RECURSIVE buildObject(_, _)
\* builder.buildObject(object): the nodes' outputs, one after the other.
buildObject(cdata, texts) ==
  IF texts = <<>> THEN <<>>
  ELSE Element(cdata, Head(texts)) \o buildObject(cdata, Tail(texts))

\* The tokens of s without the one at i.
Without(s, i) == SubSeq(s, 1, i - 1) \o SubSeq(s, i + 1, Len(s))

\* .replace(new RegExp(`(<!\\[CDATA\\[)?${START_CDATA}`), '<![CDATA['): the first
\* start token, with the opening of a CDATA section right before it if there is
\* one, becomes the opening of a CDATA section.
ReplaceStart(s) ==
  LET found == {i \in DOMAIN s : s[i] = START_CDATA} IN
  IF found = {} THEN s
  ELSE LET i == CHOOSE k \in found : \A j \in found : k <= j
           r == [s EXCEPT ![i] = OpenCData]
       IN IF i > 1 /\ s[i - 1] = OpenCData THEN Without(r, i - 1) ELSE r

\* .replace(new RegExp(`${END_CDATA}(\\]\\]>)?`), ']]>')
ReplaceEnd(s) ==
  LET found == {i \in DOMAIN s : s[i] = END_CDATA} IN
  IF found = {} THEN s
  ELSE LET i == CHOOSE k \in found : \A j \in found : k <= j
           r == [s EXCEPT ![i] = CloseCData]
       IN IF i < Len(s) /\ s[i + 1] = CloseCData THEN Without(r, i + 1) ELSE r

NoObject == [texts |-> <<>>, direction |-> "none", builds |-> TRUE,
             callback |-> "none"]
NoCallback == [called |-> 0, err |-> FALSE, result |-> <<>>, threw |-> FALSE]

\* What the callback does when called: it returns, it throws on its first call
\* only, or it throws on every call.
Callbacks == {"returns", "throwsOnce", "throws"}

\* Nothing to encode.
XmlIdle ==
  /\ object = NoObject
  /\ xml = NoCallback

\* A document to encode: its text contents, the direction, whether the builder
\* can build it, and the callback.
XmlInputs ==
  /\ \E texts \in UNION {[1..n -> TextContents] : n \in 0..MaxTexts},
        d \in {"FromDB", "FromFilesystem"}, builds \in BOOLEAN, cb \in Callbacks :
       object = [texts |-> texts, direction |-> d, builds |-> builds,
                 callback |-> cb]
  /\ xml = NoCallback

\* XMLTransformer#encodeContents(object, callback).  The try block encloses the
\* call of the callback: what the callback throws is caught like an error of the
\* builder and the callback is called again, with it; what the callback throws
\* inside the catch block leaves encodeContents.  xml records the number of
\* calls, whether the last one had an error, the result given and whether
\* encodeContents threw.
encodeContents ==
  /\ object # NoObject
  /\ xml.called = 0
  /\ xml' =
       IF object.builds
       THEN LET first == [NoCallback EXCEPT
                            !.called = 1,
                            !.result = ReplaceEnd(ReplaceStart(
                                         buildObject(builder(object.direction),
                                                     object.texts)))]
            IN IF object.callback = "returns" THEN first
               ELSE [first EXCEPT !.called = 2, !.err = TRUE,
                                  !.threw = (object.callback = "throws")]
       ELSE [NoCallback EXCEPT !.called = 1, !.err = TRUE,
                               !.threw = (object.callback # "returns")]
  /\ UNCHANGED object
  /\ UNCHANGED xmlAside

XmlNext == encodeContents

----
\* Stream: a transform stream with a session

\* Bound: the streams of a run.
MaxStreams == 2

Streams == 1..MaxStreams

\* Stream#constructor has run for each stream: Session.create() is pending,
\* this.session is not set, nothing is emitted, _flush has not been called.
SessionInit ==
  /\ session = [s \in Streams |-> "opening"]
  /\ stream = [s \in Streams |->
                 [session |-> FALSE, then |-> "pending", emitted |-> {},
                  flush |-> "none"]]

\* Session.create() is fulfilled: the session is open on the server.
Created(s) ==
  /\ session[s] = "opening"
  /\ session' = [session EXCEPT ![s] = "open"]
  /\ UNCHANGED stream
  /\ UNCHANGED sessionAside

\* catch(err => this.emit('error', err)): with an 'error' listener the event is
\* emitted; without one emit throws inside the callback and the chain ends in an
\* unhandled rejection.
EmitsError(st, listens) ==
  IF listens
  THEN [st EXCEPT !.then = "caught", !.emitted = @ \cup {"error"}]
  ELSE [st EXCEPT !.then = "unhandled"]

\* Session.create() is rejected; the catch callback runs.
CreateFails(s, listens) ==
  /\ session[s] = "opening"
  /\ session' = [session EXCEPT ![s] = "failed"]
  /\ stream' = [stream EXCEPT ![s] = EmitsError(@, listens)]
  /\ UNCHANGED sessionAside

\* then(session => this.session = session)
Stores(s) ==
  /\ session[s] \notin {"opening", "failed"}
  /\ stream[s].then = "pending"
  /\ stream' = [stream EXCEPT ![s].then = "stored", ![s].session = TRUE]
  /\ UNCHANGED session
  /\ UNCHANGED sessionAside

\* then(session => this.emit('session-open', session)); a listener of
\* 'session-open' may throw, which rejects the promise of this callback.
EmitsOpen(s, throws) ==
  /\ stream[s].then = "stored"
  /\ stream' = [stream EXCEPT ![s].then = IF throws THEN "threw" ELSE "emitted",
                              ![s].emitted = @ \cup {"session-open"}]
  /\ UNCHANGED session
  /\ UNCHANGED sessionAside

\* The catch callback at the end of the chain runs for what a 'session-open'
\* listener threw.
Catches(s, listens) ==
  /\ stream[s].then = "threw"
  /\ stream' = [stream EXCEPT ![s] = EmitsError(@, listens)]
  /\ UNCHANGED session
  /\ UNCHANGED sessionAside

\* Stream#_flush(callback): with this.session set Session.close is called, else
\* the callback at once.
_flush(s) ==
  /\ stream[s].flush = "none"
  /\ IF stream[s].session
     THEN /\ stream' = [stream EXCEPT ![s].flush = "closing"]
          /\ session' = [session EXCEPT ![s] = "closing"]
     ELSE /\ stream' = [stream EXCEPT ![s].flush = "done"]
          /\ UNCHANGED session
  /\ UNCHANGED sessionAside

\* Session.close(this.session) is fulfilled: callback()
Closed(s) ==
  /\ stream[s].flush = "closing"
  /\ session' = [session EXCEPT ![s] = "closed"]
  /\ stream' = [stream EXCEPT ![s].flush = "done"]
  /\ UNCHANGED sessionAside

\* Session.close(this.session) is rejected: callback(err)
CloseFails(s) ==
  /\ stream[s].flush = "closing"
  /\ session' = [session EXCEPT ![s] = "open"]
  /\ stream' = [stream EXCEPT ![s].flush = "error"]
  /\ UNCHANGED sessionAside

StreamNext ==
  \E s \in Streams :
    \/ Created(s)
    \/ \E listens \in BOOLEAN : CreateFails(s, listens)
    \/ Stores(s)
    \/ \E throws \in BOOLEAN : EmitsOpen(s, throws)
    \/ \E listens \in BOOLEAN : Catches(s, listens)
    \/ _flush(s)
    \/ Closed(s)
    \/ CloseFails(s)

----
\* The watch task

\* WatchTask#constructor, and WatchTask#run up to its Promise.all.
WatchInit ==
  /\ watcher = [file |-> "validating", server |-> "starting"]
  /\ run = "pending"
  /\ _pulling = FALSE
  /\ _pushing = FALSE
  /\ _lastPull = 0
  /\ _lastPushed = Null
  /\ pushes = <<>>
  /\ pulls = <<>>
  /\ serverEchoes = {}
  /\ fileEchoes = {}
  /\ reloads = 0
  /\ last = NoCall
  /\ resolved = "none"
  /\ echoConsumed = NoEcho

----
\* Start-up

\* WatchTask#startFileWatcher: the watcher is created only if ./src exists.
validateDirectoryExists(exists) ==
  /\ watcher.file = "validating"
  /\ watcher' = [watcher EXCEPT !.file = IF exists THEN "starting" ELSE "failed"]
  /\ UNCHANGED <<run, state, pushes, pulls, serverEchoes, fileEchoes, reloads, last,
                 resolved, echoConsumed>>
  /\ UNCHANGED aside

\* WatchTask#_waitForWatcher: the watcher emits 'ready' (ok) or 'error'.
WatcherEmits(w, ok) ==
  /\ watcher[w] = "starting"
  /\ watcher' = [watcher EXCEPT ![w] = IF ok THEN "ready" ELSE "failed"]
  /\ UNCHANGED <<run, state, pushes, pulls, serverEchoes, fileEchoes, reloads, last,
                 resolved, echoConsumed>>
  /\ UNCHANGED aside

\* A run that goes on with whichever watcher gets ready.
HandlersMayRegister_Either == watcher.file = "ready" \/ watcher.server = "ready"

\* A run that waits for the file watcher alone.
HandlersMayRegister_FileOnly == watcher.file = "ready"

\* WatchTask#run: Promise.all fulfils once both watchers are ready, and only then
\* are the change handlers registered.
HandlersMayRegister == watcher.file = "ready" /\ watcher.server = "ready"

RunRegisters ==
  /\ run = "pending"
  /\ HandlersMayRegister
  /\ run' = "watching"
  /\ UNCHANGED <<watcher, state, pushes, pulls, serverEchoes, fileEchoes, reloads,
                 last, resolved, echoConsumed>>
  /\ UNCHANGED aside

\* WatchTask#run: Promise.all rejects with the first watcher error.
RunRejects ==
  /\ run = "pending"
  /\ \E w \in {"file", "server"} : watcher[w] = "failed"
  /\ run' = "rejected"
  /\ UNCHANGED <<watcher, state, pushes, pulls, serverEchoes, fileEchoes, reloads,
                 last, resolved, echoConsumed>>
  /\ UNCHANGED aside

----
\* The change handlers

\* A handleFileChange that forgets the pull in progress.
StartsPush_IgnoresPulling(mtime) == normalizeMtime(mtime) > _lastPull

\* The condition under which handleFileChange starts a push.
StartsPush(mtime) == ~_pulling /\ normalizeMtime(mtime) > _lastPull

\* WatchTask#handleFileChange(path, root, stats), stats.mtime = mtime; echo tells
\* whether the event stems from a file a pull wrote.
handleFileChange(path, mtime, echo) ==
  IF StartsPush(mtime)
  THEN /\ _pushing' = TRUE
       /\ pushes' = Append(pushes, [node |-> path, phase |-> "started"])
       /\ last' = Call("file", path, mtime, "push", echo)
       /\ resolved' = "none"
       /\ echoConsumed' = NoEcho
       /\ UNCHANGED <<_pulling, _lastPull, _lastPushed, pulls, reloads>>
  ELSE /\ last' = Call("file", path, mtime, "ignored", echo)
       /\ resolved' = "false"
       /\ UNCHANGED <<state, pushes, pulls, reloads, echoConsumed>>

\* A handleServerChange that forgets the push in progress.
NotPushing_Always == TRUE

\* The condition under which handleServerChange looks at the node id at all.
NotPushing == ~_pushing

\* A handleServerChange that pulls only once something has been pushed.
StartsPull_NeedsLastPushed(nodeId) == _lastPushed # Null /\ nodeId # _lastPushed

\* The condition under which handleServerChange, not pushing, starts a pull.
StartsPull(nodeId) == nodeId # _lastPushed

\* A suppression that leaves _lastPushed as it is.
SuppressEcho_KeepsLastPushed(nodeId, mtime, echo) ==
  /\ last' = Call("server", nodeId, mtime, "suppressed", echo)
  /\ resolved' = "false"
  /\ echoConsumed' = EchoHistory(nodeId, "suppressed")
  /\ UNCHANGED <<state, pushes, pulls, reloads>>

\* handleServerChange, the branch that takes the event for the echo of the last
\* push: no pull, and _lastPushed is cleared.
SuppressEcho(nodeId, mtime, echo) ==
  /\ _lastPushed' = Null
  /\ last' = Call("server", nodeId, mtime, "suppressed", echo)
  /\ resolved' = "false"
  /\ echoConsumed' = EchoHistory(nodeId, "suppressed")
  /\ UNCHANGED <<_pulling, _pushing, _lastPull, pushes, pulls, reloads>>

\* A handleServerChange that forgets the last push when it ignores an event.
handleServerChange_IgnoredClears(nodeId, mtime, echo) ==
  IF NotPushing
  THEN IF StartsPull(nodeId)
       THEN /\ _pulling' = TRUE
            /\ pulls' = Append(pulls, [node |-> nodeId, mtime |-> mtime,
                                       phase |-> "started"])
            /\ last' = Call("server", nodeId, mtime, "pull", echo)
            /\ resolved' = "none"
            /\ echoConsumed' = EchoHistory(nodeId, "pull")
            /\ UNCHANGED <<_pushing, _lastPull, _lastPushed, pushes, reloads>>
       ELSE SuppressEcho(nodeId, mtime, echo)
  ELSE /\ _lastPushed' = Null
       /\ last' = Call("server", nodeId, mtime, "ignored", echo)
       /\ resolved' = "false"
       /\ echoConsumed' = EchoHistory(nodeId, "ignored")
       /\ UNCHANGED <<_pulling, _pushing, _lastPull, pushes, pulls, reloads>>

\* WatchTask#handleServerChange(readResult), readResult.nodeId = nodeId and
\* readResult.mtime = mtime; echo tells whether the event stems from a node a push
\* wrote.
handleServerChange(nodeId, mtime, echo) ==
  IF NotPushing
  THEN IF StartsPull(nodeId)
       THEN /\ _pulling' = TRUE
            /\ pulls' = Append(pulls, [node |-> nodeId, mtime |-> mtime,
                                       phase |-> "started"])
            /\ last' = Call("server", nodeId, mtime, "pull", echo)
            /\ resolved' = "none"
            /\ echoConsumed' = EchoHistory(nodeId, "pull")
            /\ UNCHANGED <<_pushing, _lastPull, _lastPushed, pushes, reloads>>
       ELSE SuppressEcho(nodeId, mtime, echo)
  ELSE /\ last' = Call("server", nodeId, mtime, "ignored", echo)
       /\ resolved' = "false"
       /\ echoConsumed' = EchoHistory(nodeId, "ignored")
       /\ UNCHANGED <<state, pushes, pulls, reloads>>

\* The change handlers are registered and the process runs; "exiting" when a
\* PushStream that has ended is still adding references and will end the process.
Watching == run \in {"watching", "exiting"}

\* The files of ./src: one for each node, and a reference config file.
Files == Nodes \cup {"r1"}

\* fileWatcher.on('change', ...): a file edited by the user.
FileChanged(path, mtime) ==
  /\ Watching
  /\ Started < MaxOps
  /\ handleFileChange(path, mtime, FALSE)
  /\ UNCHANGED <<watcher, run, serverEchoes, fileEchoes>>
  /\ UNCHANGED aside

\* fileWatcher.on('change', ...): the change event of a file a pull wrote.
PulledFileChanged(e) ==
  /\ Watching
  /\ Started < MaxOps
  /\ e \in fileEchoes
  /\ fileEchoes' = fileEchoes \ {e}
  /\ handleFileChange(e.node, e.mtime, TRUE)
  /\ UNCHANGED <<watcher, run, serverEchoes>>
  /\ UNCHANGED aside

\* serverWatcher.on('change', ...): a node changed by somebody else.
ServerChanged(nodeId, mtime) ==
  /\ Watching
  /\ Started < MaxOps
  /\ handleServerChange(nodeId, mtime, FALSE)
  /\ UNCHANGED <<watcher, run, serverEchoes, fileEchoes>>
  /\ UNCHANGED aside

\* serverWatcher.on('change', ...): the notification of a node a push wrote.
PushedNodeChanged(nodeId, mtime) ==
  /\ Watching
  /\ Started < MaxOps
  /\ nodeId \in serverEchoes
  /\ serverEchoes' = serverEchoes \ {nodeId}
  /\ handleServerChange(nodeId, mtime, TRUE)
  /\ UNCHANGED <<watcher, run, fileEchoes>>
  /\ UNCHANGED aside

----
\* The streams' callbacks

\* PushStream 'data' listener of handleFileChange: the file has been written to
\* the server (which will notify the server watcher) and left the stream.  A
\* reference config file is held back by atvReferenceFilter and never leaves
\* the stream.
PushData(i) ==
  /\ Watching
  /\ i \in 1..Len(pushes)
  /\ pushes[i].phase = "started"
  /\ ~isAtviseReferenceConfig(pushes[i].node)
  /\ pushes' = [pushes EXCEPT ![i].phase = "data"]
  /\ _lastPushed' = pushes[i].node
  /\ serverEchoes' = serverEchoes \cup {pushes[i].node}
  /\ last' = Call("pushData", pushes[i].node, 0, "none", FALSE)
  /\ resolved' = "none"
  /\ echoConsumed' = NoEcho
  /\ UNCHANGED <<watcher, run, _pulling, _pushing, _lastPull, pulls, fileEchoes,
                 reloads>>
  /\ UNCHANGED aside

\* An 'end' listener that does not reload.
PushEnd_Silent(i) ==
  /\ Watching
  /\ i \in 1..Len(pushes)
  /\ isAtviseReferenceConfig(pushes[i].node)
  /\ pushes' = RemoveAt(pushes, i)
  /\ _pushing' = FALSE
  /\ run' = "exiting"
  /\ last' = Call("pushEnd", pushes[i].node, 0, "none", FALSE)
  /\ resolved' = "true"
  /\ UNCHANGED <<watcher, _pulling, _lastPull, _lastPushed, pulls, serverEchoes,
                 fileEchoes, echoConsumed, reloads>>
  /\ UNCHANGED aside

\* PushStream 'end' listener of handleFileChange.  The returned stream ends
\* when the 'finish' listener of the PushStream has piped it on to add the
\* references, which is the case of a reference config file: no 'data' came
\* before, and the process goes on until the references are added.
PushEnd(i) ==
  /\ Watching
  /\ i \in 1..Len(pushes)
  /\ isAtviseReferenceConfig(pushes[i].node)
  /\ pushes' = RemoveAt(pushes, i)
  /\ _pushing' = FALSE
  /\ reloads' = reloads + 1
  /\ run' = "exiting"
  /\ last' = Call("pushEnd", pushes[i].node, 0, "none", FALSE)
  /\ resolved' = "true"
  /\ UNCHANGED <<watcher, _pulling, _lastPull, _lastPushed, pulls, serverEchoes,
                 fileEchoes, echoConsumed>>
  /\ UNCHANGED aside

\* The 'finish' listener of a PushStream without buffered reference config
\* files: PushStream#endPushTask calls process.exit() before the returned stream
\* has emitted 'end', whether or not the stream has emitted a file (the write or
\* the creation may have failed, the source may have ended without a file).  No
\* listener runs any more.
PushExits(i) ==
  /\ Watching
  /\ i \in 1..Len(pushes)
  /\ run' = "exited"
  /\ UNCHANGED <<watcher, state, pushes, pulls, serverEchoes, fileEchoes, reloads,
                 last, resolved, echoConsumed>>
  /\ UNCHANGED aside

\* The 'finish' listener of addReferenceStream, once the references of a
\* PushStream that has ended are added: PushStream#endPushTask calls
\* process.exit().
ReferencesAdded ==
  /\ run = "exiting"
  /\ run' = "exited"
  /\ UNCHANGED <<watcher, state, pushes, pulls, serverEchoes, fileEchoes, reloads,
                 last, resolved, echoConsumed>>
  /\ UNCHANGED aside

\* Inside the PullStream: AtviseFile.fromReadResult gives the file the normalized
\* readResult.mtime and the file is written to ./src with that mtime, which the
\* file watcher will report: a pending change event of a file shows the mtime of
\* its latest write, made by this pull, which has not ended.  An earlier pull
\* whose file this write replaces is "overwritten".  (normalizeMtime changes the
\* Date it is given; the record keeps the timestamp as the server watcher
\* delivered it.)
PullWrite(i) ==
  /\ Watching
  /\ i \in 1..Len(pulls)
  /\ pulls[i].phase = "started"
  /\ pulls' = [j \in 1..Len(pulls) |->
                 IF j = i THEN [pulls[j] EXCEPT !.phase = "written"]
                 ELSE IF pulls[j].node = pulls[i].node /\ pulls[j].phase = "written"
                      THEN [pulls[j] EXCEPT !.phase = "overwritten"]
                      ELSE pulls[j]]
  /\ fileEchoes' = {e \in fileEchoes : e.node # pulls[i].node} \cup
       {[node |-> pulls[i].node, mtime |-> normalizeMtime(pulls[i].mtime),
         ended |-> FALSE]}
  /\ last' = Call("pullWrite", pulls[i].node, pulls[i].mtime, "none", FALSE)
  /\ resolved' = "none"
  /\ UNCHANGED <<watcher, run, state, pushes, serverEchoes, reloads, echoConsumed>>
  /\ UNCHANGED aside

\* PullStream 'end' listener of handleServerChange.  A pending change event of
\* the file this pull wrote is from now on that of a pull that has ended.
PullEnd(i) ==
  /\ Watching
  /\ i \in 1..Len(pulls)
  /\ pulls[i].phase \in {"written", "overwritten"}
  /\ pulls' = RemoveAt(pulls, i)
  /\ fileEchoes' = {IF e.node = pulls[i].node /\ pulls[i].phase = "written"
                    THEN [e EXCEPT !.ended = TRUE] ELSE e : e \in fileEchoes}
  /\ _pulling' = FALSE
  /\ _lastPull' = normalizeMtime(pulls[i].mtime)
  /\ reloads' = reloads + 1
  /\ last' = Call("pullEnd", pulls[i].node, pulls[i].mtime, "none", FALSE)
  /\ resolved' = "true"
  /\ UNCHANGED <<watcher, run, _pushing, _lastPushed, pushes, serverEchoes,
                 echoConsumed>>
  /\ UNCHANGED aside

----
Next ==
  \/ \E exists \in BOOLEAN : validateDirectoryExists(exists)
  \/ \E w \in {"file", "server"}, ok \in BOOLEAN : WatcherEmits(w, ok)
  \/ RunRegisters
  \/ RunRejects
  \/ \E path \in Files, mtime \in Times : FileChanged(path, mtime)
  \/ \E e \in fileEchoes : PulledFileChanged(e)
  \/ \E nodeId \in Nodes, mtime \in Times : ServerChanged(nodeId, mtime)
  \/ \E nodeId \in Nodes, mtime \in Times : PushedNodeChanged(nodeId, mtime)
  \/ \E i \in 1..MaxOps : PushData(i)
  \/ \E i \in 1..MaxOps : PushEnd(i)
  \/ \E i \in 1..MaxOps : PushExits(i)
  \/ ReferencesAdded
  \/ \E i \in 1..MaxOps : PullWrite(i)
  \/ \E i \in 1..MaxOps : PullEnd(i)

Init ==
  /\ WatchInit /\ TfInit /\ PsInit /\ CodecIdle /\ PathIdle /\ ClientInit
  /\ XmlIdle /\ SessionInit

Spec == Init /\ [][Next]_vars

TransformerSpec == Init /\ [][TfNext]_vars

PushStreamSpec == Init /\ [][PsNext]_vars

CodecInit ==
  /\ WatchInit /\ TfInit /\ PsInit /\ CodecInputs /\ PathIdle /\ ClientInit
  /\ XmlIdle /\ SessionInit

CodecSpec == CodecInit /\ [][CodecNext]_vars

PathInit ==
  /\ WatchInit /\ TfInit /\ PsInit /\ CodecIdle /\ PathInputs /\ ClientInit
  /\ XmlIdle /\ SessionInit

PathSpec == PathInit /\ [][PathNext]_vars

ClientSpec == Init /\ [][ClientNext]_vars

XmlInit ==
  /\ WatchInit /\ TfInit /\ PsInit /\ CodecIdle /\ PathIdle /\ ClientInit
  /\ XmlInputs /\ SessionInit

XmlSpec == XmlInit /\ [][XmlNext]_vars

StreamSpec == Init /\ [][StreamNext]_vars

----
\* Steps of the two handlers, whatever the origin of the event

\* handleFileChange runs for the file `path` with modification time `mtime`.
FileEvent(path, mtime) ==
  \/ FileChanged(path, mtime)
  \/ \E ended \in BOOLEAN :
       PulledFileChanged([node |-> path, mtime |-> mtime, ended |-> ended])

\* handleServerChange runs for the node `nodeId` with timestamp `mtime`.
ServerEvent(nodeId, mtime) ==
  \/ ServerChanged(nodeId, mtime)
  \/ PushedNodeChanged(nodeId, mtime)

\* The step starts one push, of the file `path`, and no other.
PushStarts(path) ==
  pushes' = Append(pushes, [node |-> path, phase |-> "started"])

\* The step starts one pull, of the node `nodeId` as of `mtime`, and no other.
PullStarts(nodeId, mtime) ==
  pulls' = Append(pulls, [node |-> nodeId, mtime |-> mtime, phase |-> "started"])

----
\* C1: echo suppression is consumed exactly once.  A remote-change event for N
\* handled while not pushing and with _lastPushed = N starts no pull and clears
\* _lastPushed; and the next remote-change event for N, with no push started and
\* no pushed file recorded in between, starts a pull of N.
C1_EchoConsumedOnce ==
  /\ [][\A n \in Nodes, m \in Times :
          (ServerEvent(n, m) /\ ~_pushing /\ _lastPushed = n)
            => /\ pulls' = pulls
               /\ _pulling' = _pulling
               /\ _lastPushed' = Null]_vars
  /\ [][\A n \in Nodes, m \in Times :
          (ServerEvent(n, m) /\ echoConsumed.node = n /\ echoConsumed.then = "pending")
            => /\ PullStarts(n, m)
               /\ _pulling']_vars

\* C1 happens: the echo of a push was suppressed, and the next event for the same
\* node has started a pull that is running.
C1_Witness ==
  /\ echoConsumed.then = "pull"
  /\ last.op = "server" /\ last.res = "pull" /\ last.node = echoConsumed.node
  /\ _lastPushed = Null

\* C2: a file-change event handled while _pulling is true starts no push (and
\* changes no flag), whatever the file's modification time.
C2_NoPushWhilePulling ==
  [][\A path \in Files, mtime \in Times :
       (FileEvent(path, mtime) /\ _pulling)
         => /\ pushes' = pushes
            /\ UNCHANGED state]_vars

\* C2 happens: a file newer than the last pull was ignored because a pull runs.
C2_Witness ==
  /\ last.op = "file" /\ last.res = "ignored"
  /\ _pulling
  /\ normalizeMtime(last.mtime) > _lastPull

\* C3: a remote-change event handled while _pushing is true starts no pull (and
\* changes no flag), whatever its node id.
C3_NoPullWhilePushing ==
  [][\A n \in Nodes, m \in Times :
       (ServerEvent(n, m) /\ _pushing)
         => /\ pulls' = pulls
            /\ UNCHANGED state]_vars

\* C3 happens: an event for a node other than the last pushed one was ignored
\* because a push runs.
C3_Witness ==
  /\ last.op = "server" /\ last.res = "ignored"
  /\ _pushing
  /\ last.node # _lastPushed

\* C4: a file-change event handled while not pulling, for a file whose normalized
\* modification time is strictly newer than _lastPull, sets _pushing and starts a
\* push of exactly that file; the push's data event records the file's node id as
\* _lastPushed; and the push's end clears _pushing and notifies reload once.
\* Every such push gets there: the push that ends has recorded its file, and the
\* process does not stop with a push in flight.
C4_FileChangePushes ==
  /\ [][\A path \in Files, mtime \in Times :
          (FileEvent(path, mtime) /\ ~_pulling /\ normalizeMtime(mtime) > _lastPull)
            => /\ _pushing'
               /\ PushStarts(path)
               /\ reloads' = reloads]_vars
  /\ [][\A i \in 1..MaxOps :
          /\ PushData(i) => (_lastPushed' = pushes[i].node /\ reloads' = reloads)
          /\ PushEnd(i) => /\ ~_pushing'
                           /\ reloads' = reloads + 1
                           /\ Len(pushes') = Len(pushes) - 1
                           /\ pushes[i].phase = "data"]_vars
  /\ [](run = "exited" => pushes = <<>>)

\* C5: a remote-change event handled while not pushing, for a node other than
\* _lastPushed (or with _lastPushed unset), sets _pulling and starts a pull of
\* exactly that node; the pull's end sets _lastPull to the event's timestamp (a
\* Date whose milliseconds normalizeMtime has set to 0), notifies reload once and
\* clears _pulling.
C5_ServerChangePulls ==
  /\ [][\A n \in Nodes, m \in Times :
          (ServerEvent(n, m) /\ ~_pushing /\ n # _lastPushed)
            => /\ _pulling'
               /\ PullStarts(n, m)
               /\ reloads' = reloads
               /\ _lastPull' = _lastPull]_vars
  /\ [][\A i \in 1..MaxOps :
          PullEnd(i) => /\ _lastPull' = normalizeMtime(pulls[i].mtime)
                        /\ reloads' = reloads + 1
                        /\ ~_pulling'
                        /\ Len(pulls') = Len(pulls) - 1]_vars

\* C5 happens: a pull of a node has run to its end, for an event whose timestamp
\* has a millisecond part.
C5_Witness ==
  /\ last.op = "pullEnd"
  /\ last.mtime # normalizeMtime(last.mtime)
  /\ _lastPull = normalizeMtime(last.mtime)
  /\ ~_pulling
  /\ reloads = 1
  /\ pulls = <<>>

\* C6: _pulling and _pushing are never both true.
C6_MutuallyExclusive == ~(_pulling /\ _pushing)

\* C6 happens: the handlers have interleaved so that a pull was started while a
\* push has not ended yet.
C6_Witness == _pulling /\ Len(pushes) > 0 /\ Len(pulls) > 0

\* C7: events of the same origin are serialized: no push starts before the earlier
\* push has ended, and no pull starts before the earlier pull has ended.
C7_Serialized ==
  /\ [][\A path \in Files, mtime \in Times :
          (FileEvent(path, mtime) /\ Len(pushes) > 0) => pushes' = pushes]_vars
  /\ [][\A n \in Nodes, m \in Times :
          (ServerEvent(n, m) /\ Len(pulls) > 0) => pulls' = pulls]_vars

\* C8: no lost updates: a remote-change event for N that is not the echo of a push
\* of N starts a pull of N.
C8_NoLostUpdate ==
  [][\A n \in Nodes, m \in Times : ServerChanged(n, m) => PullStarts(n, m)]_vars

\* The pull that wrote the file behind the pending change event e has ended.
PullEnded(e) == e.ended

\* C9: no echo from pull to push: a file-change event whose normalized
\* modification time is not strictly greater than _lastPull starts no push; and the
\* change event of a file written by a pull that has ended starts no push.
C9_NoPullPushEcho ==
  /\ [][\A path \in Files, mtime \in Times :
          (FileEvent(path, mtime) /\ ~(normalizeMtime(mtime) > _lastPull))
            => pushes' = pushes]_vars
  /\ [][\A e \in fileEchoes :
          (PulledFileChanged(e) /\ PullEnded(e)) => pushes' = pushes]_vars

\* C10: nothing is pushed or pulled, and no handler runs, before both watchers
\* have reported ready; until the handlers are registered the task is idle with
\* _lastPull = 0 and _lastPushed unset.
C10_StartsAfterBothReady ==
  /\ (Started > 0 \/ last.op # "none" \/ run \notin {"pending", "rejected"})
       => (watcher.file = "ready" /\ watcher.server = "ready")
  /\ run \in {"pending", "rejected"} => /\ state = <<FALSE, FALSE, 0, Null>>
                                        /\ Started = 0

\* C10 happens: both watchers are ready and a handler has started an operation.
C10_Witness ==
  /\ run = "watching"
  /\ last.op \in {"file", "server"}
  /\ last.res \in {"push", "pull"}

\* C11: handleFileChange resolves false in the very call exactly when the event
\* starts no push, and handleServerChange resolves false exactly when the event
\* starts no pull (ignored while pushing, or suppressed as an echo); neither
\* resolves true in the call itself: true is passed to resolve only by the 'end'
\* listener of the PushStream or PullStream the call started, as that stream ends.
\* A call that started a push or a pull resolves true: the process does not stop
\* while a push or a pull it started has not ended.
C11_ResolvedValue ==
  /\ [][\A path \in Files, mtime \in Times :
          FileEvent(path, mtime)
            => /\ (resolved' = "false") <=> (pushes' = pushes)
               /\ (resolved' = "none") <=> PushStarts(path)]_vars
  /\ [][\A n \in Nodes, m \in Times :
          ServerEvent(n, m)
            => /\ (resolved' = "false") <=> (pulls' = pulls)
               /\ (resolved' = "none") <=> PullStarts(n, m)]_vars
  /\ [][\A i \in 1..MaxOps :
          /\ PushEnd(i) => (resolved' = "true" /\ pushes' = RemoveAt(pushes, i))
          /\ PullEnd(i) => (resolved' = "true" /\ pulls' = RemoveAt(pulls, i))]_vars
  /\ [](resolved = "true" => last.op \in {"pushEnd", "pullEnd"})
  /\ [](run = "exited" => (pushes = <<>> /\ pulls = <<>>))

----
\* Transformer and Transformer.applyTransformers: claims

\* C12: applyTransformers([A, B], FromDB) chains A into B and returns B, so that
\* each file is handled by A and then by B; for FromFilesystem it chains B into A
\* and returns A.  For every list the FromFilesystem order of the stages is the
\* reverse of the FromDB order.
C12_CompositionOrder ==
  /\ \A l \in Lists : Ordered(l, "FromFilesystem") = Reverse(Ordered(l, "FromDB"))
  /\ (composed # NoChain /\ composed.transformers # <<>>)
       => LET l == composed.transformers
              expected == IF composed.direction = "FromDB" THEN l ELSE Reverse(l)
          IN /\ StagesTo(composed.returned) = expected
             /\ composed.returned = expected[Len(expected)]
             /\ \A i \in DOMAIN emitted : emitted[i].via = expected

\* [A, B] was composed for FromFilesystem and a file came out of A, handled by B
\* and then by A.
C12_Witness ==
  /\ composed.transformers = <<"A", "B">>
  /\ composed.direction = "FromFilesystem"
  /\ composed.returned = "A"
  /\ Len(emitted) > 0
  /\ emitted[1].via = <<"B", "A">>

\* C13: a call of applyTransformers with a valid direction sets the direction of
\* every transformer of the list to it, and for a list of one transformer it
\* returns that transformer.
C13_AllBound ==
  [][(outcome'.op = "applyTransformers" /\ outcome'.arg \in Directions)
       => LET l == composed'.transformers IN
          /\ composed' # composed
          /\ composed'.direction = outcome'.arg
          /\ \A i \in DOMAIN l : direction'[l[i]] = outcome'.arg
          /\ Len(l) = 1 => (outcome'.returned = l[1] /\ composed'.returned = l[1])]_vars

\* Three transformers that had no direction were composed: each has the direction.
C13_Witness ==
  /\ outcome.op = "applyTransformers"
  /\ Len(composed.transformers) = 3
  /\ composed.direction = "FromDB"
  /\ \A t \in Transformers : direction[t] = "FromDB"

\* C14: applyTransformers([], direction) with a valid direction returns a stream
\* that emits exactly the files written to it, unchanged and in the order written.
C14_EmptyIsIdentity ==
  (composed # NoChain /\ composed.transformers = <<>>)
    => /\ composed.returned = "through"
       /\ emitted = written

\* Two different files went through the stream composed of no transformers.
C14_Witness ==
  /\ composed # NoChain
  /\ composed.transformers = <<>>
  /\ Len(written) = 2
  /\ written[1].name # written[2].name
  /\ Len(emitted) = 2

\* C15: a direction outside the enum makes the constructor and withDirection throw
\* 'Invalid direction' (withDirection also for no direction at all) and
\* applyTransformers throw 'Direction is invalid', whatever the list; a call that
\* throws changes no transformer's direction.
C15_InvalidDirectionRejected ==
  /\ [][(outcome'.op \in {"constructor", "withDirection"}
           /\ outcome'.arg \notin Directions
           /\ ~(outcome'.op = "constructor" /\ outcome'.arg = NoDirection))
          => outcome'.threw = "Invalid direction"]_vars
  /\ [][(outcome'.op = "applyTransformers" /\ outcome'.arg \notin Directions)
          => outcome'.threw = "Direction is invalid"]_vars
  /\ [][outcome'.threw # "none"
          => (direction' = direction /\ pipeTo' = pipeTo /\ composed' = composed)]_vars

\* applyTransformers threw while no transformer existed: its list was empty.
C15_Witness ==
  /\ outcome.op = "applyTransformers"
  /\ outcome.threw = "Direction is invalid"
  /\ \A t \in Transformers : direction[t] = Unborn

\* C16: _transform calls transformFromDB, and not transformFromFilesystem, for a
\* transformer with direction FromDB, the other way round for FromFilesystem, and
\* for a transformer without direction it calls neither and calls back with the
\* error 'Transformer has no direction'.
C16_DispatchOnDirection ==
  [][\A t \in Transformers, name \in FileNames :
       (outcome'.op = "_transform" /\ _transform(t, name))
         => /\ outcome'.threw = "none"
            /\ direction[t] = "FromDB" => outcome'.called = "transformFromDB"
            /\ direction[t] = "FromFilesystem"
                 => outcome'.called = "transformFromFilesystem"
            /\ direction[t] = NoDirection
                 => /\ outcome'.called = "none"
                    /\ outcome'.error = "Transformer has no direction"]_vars

\* _transform ran on a transformer bound to FromFilesystem.
C16_Witness ==
  /\ outcome.op = "_transform"
  /\ outcome.called = "transformFromFilesystem"

\* C17: transformFromDB and transformFromFilesystem of a transformer that does not
\* override them call back with a 'must be overridden' error: nothing is thrown
\* and no file is handed on.
C17_MustBeOverridden ==
  /\ [][\A t \in Transformers \ Overriding, name \in FileNames :
          (outcome'.op = "_transform" /\ _transform(t, name) /\ direction[t] \in Directions)
            => /\ outcome'.error = "must be overridden"
               /\ outcome'.threw = "none"
               /\ emitted' = emitted]_vars
  /\ [][\A name \in FileNames :
          (outcome'.op = "write" /\ Write(name) /\ \E i \in DOMAIN composed.transformers :
                 composed.transformers[i] \notin Overriding)
            => /\ outcome'.error = "must be overridden"
               /\ emitted' = emitted]_vars

\* A file written to a chain holding the plain Transformer C was not emitted.
C17_Witness ==
  /\ outcome.op = "write"
  /\ outcome.error = "must be overridden"
  /\ outcome.called = "transformFromDB"
  /\ Len(written) = 1
  /\ emitted = <<>>

----
\* AtviseFile.encodeValue and AtviseFile.decodeValue: claims

\* C19: for every data type and every value of it, decoding the encoded value
\* gives the value back: decodeValue(encodeValue(value, dataType), dataType) = value.
C19_RoundTrip ==
  (step = "decoded" /\ value # Blank) => decoded = value

\* C20: for every data type a null value is encoded to zero-length contents, and
\* contents that are null or of length zero are decoded to null; so null, encoded
\* and decoded, is null again.
C20_NullIsEmpty ==
  /\ (step \in {"encoded", "decoded"} /\ value = JsNull) => contents = Buffer(<<>>)
  /\ (step = "decoded" /\ (contents = JsNull \/ contents = Buffer(<<>>)))
       => decoded = JsNull
  /\ (step = "decoded" /\ value = JsNull) => decoded = JsNull

\* The null value of an Int32 node has been encoded and decoded.
C20_Witness ==
  /\ step = "decoded"
  /\ dataType = "Int32"
  /\ value = JsNull
  /\ contents = Buffer(<<>>)
  /\ decoded = JsNull

----
\* AtviseFile, storage paths and metadata: claims

\* The file _getMetadata ran on, as it was before.
Inferred == FileAt(atviseFile.path, atviseFile.dir)

\* How many tokens the steps in `by` popped.
Popped(by) ==
  Cardinality({i \in DOMAIN extensions.popped : extensions.popped[i][1] \in by})

\* C21: for every relative path, whatever its tokens, _getMetadata throws nothing
\* and leaves the file with a data type, an array type and a type definition.
C21_InferenceTotal ==
  at = "metadata"
    => /\ thrown = "none"
       /\ \E i \in DOMAIN types : atviseFile._dataType = types[i]
       /\ atviseFile._arrayType \in VariantArrayType
       /\ atviseFile._typeDefinition \in TypeDefinitions

\* The metadata of a file whose only token is the empty one ("Main.").
C21_Witness ==
  /\ at = "metadata"
  /\ atviseFile.path.exts = <<"">>
  /\ atviseFile._dataType = "ByteString"
  /\ atviseFile._typeDefinition = OctetStream
  /\ atviseFile._arrayType = "Scalar"

\* C22: for every node id, data type, array type and type definition, the file
\* at pathForReadResult(readResult) infers the read result's data type, array type
\* and type definition, and its node id is the read result's node id.
C22_PathRoundTrip ==
  /\ (at = "metadata" /\ readResult # NoReadResult)
       => /\ atviseFile._dataType = readResult.dataType
          /\ atviseFile._arrayType = readResult.arrayType
          /\ atviseFile._typeDefinition = readResult.typeDefinition
  /\ (at = "nodeId" /\ readResult # NoReadResult)
       => idPath = Relative("none", readResult.nodeId.base, readResult.nodeId.exts)

\* C23: pathForReadResult appends to the node's path the extension of the data
\* type for a Variable, "prop" and that extension for a Property, for any other
\* type its identifier ("var" if it is not registered) and its file extension or
\* else the data type's, nothing if the registered type keeps its extension, and
\* at last "array" or "matrix" if and only if the array type is not scalar.
C23_PathForReadResult ==
  (at \in {"file", "created"} /\ readResult # NoReadResult)
    => LET r == readResult
           ext == IF r.dataType = "Boolean" THEN "bool"
                  ELSE IF r.dataType = "XmlElement" THEN "xml"
                  ELSE toLowerCase(r.dataType)
           typed == CASE r.typeDefinition = VariableTypeDefinition -> <<ext>>
                      [] r.typeDefinition = PropertyTypeDefinition -> <<"prop", ext>>
                      [] r.typeDefinition = Display -> <<"display", "xml">>
                      [] r.typeDefinition = HtmlHelp -> <<"help", "html">>
                      [] r.typeDefinition = Png -> <<>>
                      [] OTHER -> <<"var", ext>>
           arr == CASE r.arrayType = "Scalar" -> <<>>
                    [] r.arrayType = "Array" -> <<"array">>
                    [] r.arrayType = "Matrix" -> <<"matrix">>
       IN /\ atviseFile.path.base = r.nodeId.base
          /\ atviseFile.path.exts = r.nodeId.exts \o typed \o arr

\* The path of a Boolean array property.
C23_Witness ==
  /\ at = "file"
  /\ readResult.typeDefinition = PropertyTypeDefinition
  /\ atviseFile.path = Path("AGENT/Main", <<"prop", "bool", "array">>)

\* C24: fromReadResult throws for a read result without value and creates no file;
\* for a read result with a value it creates a file whose data type, array type
\* and type definition are those of the read result.
C24_FromReadResult ==
  [][(at = "readResult" /\ at' # "file")
          => IF readResult.hasValue
             THEN /\ at' = "created"
                  /\ thrown' = "none"
                  /\ atviseFile'._dataType = readResult.dataType
                  /\ atviseFile'._arrayType = readResult.arrayType
                  /\ atviseFile'._typeDefinition = readResult.typeDefinition
             ELSE /\ at' = "threw"
                  /\ thrown' = "no value"
                  /\ atviseFile' = NoFile]_vars

\* C26: _getMetadata pops at most one of the tokens "array" and "matrix", then at
\* most one token of a data type, then sets the type definition to Variable if no
\* token is left and else pops a "prop" for Property: ".prop.string" gives a
\* String property, and a last ".array" gives an array and is gone before the
\* data type is looked at.
C26_RightToLeft ==
  at = "metadata"
    => LET m == VariableAndProperty(Inferred) IN
       /\ Popped({"array", "matrix"}) <= 1
       /\ Popped({"type", "wrapped"}) <= 1
       /\ Popped({"prop"}) <= 1
       /\ (m.extensions = <<>> /\ Popped({"prop"}) = 0)
            => m._typeDefinition = VariableTypeDefinition
       /\ Popped({"prop"}) = 1 => m._typeDefinition = PropertyTypeDefinition
       /\ (Inferred.path.exts = <<"prop", "string">> /\ Inferred.dir = "none")
            => (atviseFile._typeDefinition = PropertyTypeDefinition
                  /\ atviseFile._dataType = "String")

\* C27, as claimed: the fallback is applied exactly when neither the data type
\* nor the type definition is resolved after the steps for variables, properties
\* and atvise types, and what a step resolved is kept.
C27_FallbackWhenBothUnresolved ==
  at = "metadata"
    => LET m == HandleAtviseTypes(VariableAndProperty(Inferred))
           applied == \/ atviseFile._dataType # m._dataType
                      \/ atviseFile._typeDefinition # m._typeDefinition
       IN /\ applied <=> (m._dataType = Undefined /\ m._typeDefinition = Undefined)
          /\ m._dataType # Undefined => atviseFile._dataType = m._dataType
          /\ m._typeDefinition # Undefined
               => atviseFile._typeDefinition = m._typeDefinition

\* C27, amended: the fallback is applied exactly when the data type or the type
\* definition is unresolved after these steps, and it then sets both: ByteString
\* and Resource.OctetStream; with both resolved, both are kept.
C27_FallbackWhenIncomplete ==
  at = "metadata"
    => LET m == HandleAtviseTypes(VariableAndProperty(Inferred)) IN
       IF m._dataType = Undefined \/ m._typeDefinition = Undefined
       THEN /\ atviseFile._dataType = "ByteString"
            /\ atviseFile._typeDefinition = OctetStream
       ELSE /\ atviseFile._dataType = m._dataType
            /\ atviseFile._typeDefinition = m._typeDefinition

\* "Main.prop": the Property type definition was replaced by the fallback.
C27_Witness ==
  /\ at = "metadata"
  /\ atviseFile.path.exts = <<"prop">>
  /\ atviseFile.dir = "none"
  /\ extensions.popped = << <<"prop", "prop">> >>
  /\ atviseFile._typeDefinition = OctetStream
  /\ atviseFile._dataType = "ByteString"

\* C28: if the metadata is incomplete after the steps for variables and
\* properties, the first atvise type, in the order of the registry, whose
\* identifier is among the remaining tokens gives both the type definition and
\* the data type, wherever the token stands, and no other type is applied.
C28_FirstRegisteredWins ==
  at = "metadata"
    => LET m == VariableAndProperty(Inferred)
           found == {i \in DOMAIN AtviseTypes :
                       \E j \in DOMAIN m.extensions :
                         m.extensions[j] = AtviseTypes[i].identifier}
       IN ((m._dataType = Undefined \/ m._typeDefinition = Undefined) /\ found # {})
            => \E i \in found :
                 /\ \A k \in found : i <= k
                 /\ atviseFile._typeDefinition = AtviseTypes[i].typeDefinition
                 /\ atviseFile._dataType = AtviseTypes[i].dataType
                 /\ extensions.rest = m.extensions

\* "Main.png.display": both identifiers match and the one registered first wins,
\* although its token comes last.
C28_Witness ==
  /\ at = "metadata"
  /\ atviseFile.path.exts = <<"png", "display">>
  /\ atviseFile._typeDefinition = Display
  /\ atviseFile._dataType = "XmlElement"

----
\* Client.create: claims

\* C25: a timer that fires while the connect callback is outstanding rejects the
\* promise with the error "Connection timed out"; a settled promise never changes
\* again, whatever comes later; a pending promise is settled by the first of the
\* connect callback and the timer's callback, fulfilled only by a connect without
\* error; no promise is pending after its timer has fired, and no timer fires
\* before its timeout has elapsed.  The attempt is abandoned with the timeout: a
\* client whose creation was rejected as timed out does not connect.
C25_ConnectTimeout ==
  /\ [][(timer.state = "armed" /\ timer'.state = "fired"
           /\ client.state = "connecting")
          => promise' = [state |-> "rejected",
                         value |-> "Error: Connection timed out"]]_vars
  /\ [][promise.state \in {"fulfilled", "rejected"} => promise' = promise]_vars
  /\ [][(promise.state = "pending" /\ promise' # promise)
          => /\ promise'.state \in {"fulfilled", "rejected"}
             /\ promise'.state = "fulfilled"
                  <=> (client.state = "connecting" /\ client'.state = "connected")]_vars
  /\ [](promise.state = "pending"
          => (timer.state = "armed" /\ client.state = "connecting"))
  /\ [](timer.state = "fired" => timer.due <= now)
  /\ [](promise = [state |-> "rejected", value |-> "Error: Connection timed out"]
          => client.state # "connected")

----
\* AtviseFile.encodeValue and AtviseFile.decodeValue: more claims

\* The text s without the spaces at its start and its end.
IsTrimmed(t, s) ==
  /\ t = <<>> \/ (t[1] # " " /\ t[Len(t)] # " ")
  /\ \E i \in 0..Len(s) :
       /\ i + Len(t) <= Len(s)
       /\ \A k \in 1..Len(s) :
            IF k > i /\ k <= i + Len(t) THEN s[k] = t[k - i] ELSE s[k] = " "

\* C29: contents that are not empty are decoded to themselves, byte for byte, for
\* a data type without decoder; for Boolean, String, NodeId, DateTime, UInt64 and
\* Int64 the decoded value is read from the text of the contents.
C29_DecodeNonEmpty ==
  (step = "decoded" /\ contents \notin {JsNull, Buffer(<<>>)})
    => LET text == contents.s IN
       CASE dataType = "Boolean" -> decoded = Bool(text = <<"t", "r", "u", "e">>)
         [] dataType = "String" -> decoded = String(text)
         [] dataType = "NodeId" -> text = NodeIdText => decoded = NodeIdValue(text)
         [] dataType = "DateTime"
              -> /\ decoded.kind \in {"Date", "NaN"}
                 /\ IsNumberText(text) => (decoded.kind = "Date"
                                             /\ numberToString(decoded.n) = text)
         [] dataType \in {"UInt64", "Int64"}
              -> /\ decoded.kind # "Buffer"
                 /\ text = <<"[", "1", ",", "0", "]">> => decoded = Array(<<1, 0>>)
         [] OTHER -> decoded = contents

\* The contents "7" of an Int32 node, decoded to the same buffer.
C29_Witness ==
  /\ step = "decoded"
  /\ value = Blank
  /\ dataType = "Int32"
  /\ contents = Buffer(<<"7">>)
  /\ decoded = Buffer(<<"7">>)

\* C30: a value that is not null is encoded, for a DateTime, as the decimal text
\* of its milliseconds, for a UInt64 or Int64 as the JSON text of its two
\* components, for a ByteString as its bytes, and for every other data type as
\* the text of the value without the whitespace at its start and its end.
C30_EncodeNonNull ==
  (step = "encoded" /\ value \notin {Blank, JsNull})
    => /\ contents.kind = "Buffer"
       /\ CASE dataType = "DateTime"
                 -> IsNumberText(contents.s) /\ digitsValue(contents.s, 0) = value.n
            [] dataType \in {"UInt64", "Int64"}
                 -> \E hi, lo \in Numbers :
                      /\ value.a = <<hi, lo>>
                      /\ contents.s = <<"[">> \o numberToString(hi) \o <<",">>
                                        \o numberToString(lo) \o <<"]">>
            [] dataType = "ByteString" -> contents.s = value.s
            [] dataType = "Boolean"
                 -> contents.s = IF value.b THEN <<"t", "r", "u", "e">>
                                 ELSE <<"f", "a", "l", "s", "e">>
            [] dataType = "Int32"
                 -> IsNumberText(contents.s) /\ digitsValue(contents.s, 0) = value.n
            [] OTHER -> IsTrimmed(contents.s, value.s)

\* The String " a " is stored as "a".
C30_Witness ==
  /\ step = "encoded"
  /\ dataType = "String"
  /\ value = String(<<" ", "a", " ">>)
  /\ contents = Buffer(<<"a">>)

----
\* AtviseFile#nodeId, normalizeMtime: claims

\* C31: the node id of a file is taken from its relative path without the
\* extensions of the file name, and with nothing else removed, or from the whole
\* relative path if the file's type keeps its extension; and for no file whose
\* metadata could be inferred does the getter throw.
C31_NodeIdPath ==
  /\ (at = "threw" /\ readResult = NoReadResult) => thrown = "none"
  /\ (at = "nodeId" /\ readResult = NoReadResult)
       => idPath = Relative(atviseFile.dir, atviseFile.path.base,
                            IF \E i \in DOMAIN AtviseTypes :
                                 /\ AtviseTypes[i].typeDefinition
                                      = atviseFile._typeDefinition
                                 /\ AtviseTypes[i].keepExtension
                            THEN atviseFile.path.exts ELSE <<>>)

\* C32: normalizeMtime gives the same second with no milliseconds, and gives its
\* own result back unchanged; the file fromReadResult creates has as mtime the
\* read result's time without its milliseconds, or none if the read result has
\* none.
C32_MtimeNormalized ==
  (at = "created" /\ readResult # NoReadResult)
    => IF ~readResult.mtime.set
       THEN atviseFile.mtime = NoMtime
       ELSE /\ atviseFile.mtime.set
            /\ atviseFile.mtime.ms % 1000 = 0
            /\ atviseFile.mtime.ms <= readResult.timestamp
            /\ readResult.timestamp < atviseFile.mtime.ms + 1000
            /\ normalizeMtime(atviseFile.mtime.ms) = atviseFile.mtime.ms

\* A file made of a read result of the time 1500.
C32_Witness ==
  /\ at = "created"
  /\ readResult.timestamp = 1500
  /\ atviseFile.mtime = Mtime(1000)

----
\* Client.create: the connect error

\* C33: when the connect callback reports an error while the promise is pending,
\* the promise is rejected with an Error made of the endpoint and the error's
\* message, and a rejected promise is never fulfilled.
C33_ConnectErrorRejects ==
  /\ [][(promise.state = "pending" /\ client.state = "connecting"
           /\ client'.state = "failed")
          => promise' = [state |-> "rejected", value |-> "Error: err.message"]]_vars
  /\ [][promise.state = "rejected" => promise'.state = "rejected"]_vars

----
\* XMLTransformer: claims

RECURSIVE Forced(_, _)
\* What the document's nodes are to look like: the text of a forced content in
\* one CDATA section, every other node as the builder writes it.
Forced(cdata, texts) ==
  IF texts = <<>> THEN <<>>
  ELSE (IF Head(texts).forced
        THEN <<"<e>", OpenCData,
               IF cdata THEN Raw(Head(texts)) ELSE Escaped(Head(texts)),
               CloseCData, "</e>">>
        ELSE Element(cdata, Head(texts)))
       \o Forced(cdata, Tail(texts))

\* C34: for a document with any number of contents wrapped with forceCData, the
\* output of encodeContents has no STARTCDATA and no ENDCDATA token and has every
\* forced content in exactly one CDATA section; if the builder fails, the
\* callback gets the error and nothing is thrown (the callback itself returning
\* normally).
C34_ForcedCData ==
  (xml.called > 0 /\ object.callback = "returns")
    => /\ xml.called = 1
       /\ ~xml.threw
       /\ xml.err <=> ~object.builds
       /\ ~xml.err
            => /\ \A i \in DOMAIN xml.result :
                    xml.result[i] \notin {START_CDATA, END_CDATA}
               /\ xml.result = Forced(builder(object.direction), object.texts)

----
\* Stream: claims

\* C36: 'session-open' is emitted only with the session stored on the stream; a
\* flush of a stream with a stored session is done only when Session.close has
\* settled; and once a stream's flush is done its session is not open, however
\* the creation of the session and the flush interleave.
C36_SessionsClosed ==
  \A s \in Streams :
    /\ "session-open" \in stream[s].emitted => stream[s].session
    /\ (stream[s].flush = "closing") => session[s] = "closing"
    /\ (stream[s].flush = "done") => session[s] # "open"

\* C35: in PushStream a type definition file and a reference config file never run
\* through the configured transformers.  A type definition file rejoins the
\* pipes behind them and runs through nodeFileStream and writeStream (and
\* createNodeStream if its node is missing); a reference config file runs through
\* none of these and reaches addReferenceStream only; any other file runs through
\* the transformers.  When the run has ended every file the source emitted has
\* had its operation.
C35_FiltersBypass ==
  /\ \A f \in PushFiles :
       visited[f] # {} =>
         /\ isTypeDefinition(f) =>
              /\ "useTransformers" \notin visited[f]
              /\ {"typeDefinitionFilter.restore", "nodeFileStream", "writeStream"}
                    \subseteq visited[f]
              /\ operation[f] \in {"writing", "written", "writeFailed", "creating",
                                   "created", "createFailed"}
         /\ isAtviseReferenceConfig(f) =>
              /\ visited[f] \cap {"useTransformers", "nodeFileStream", "writeStream",
                                   "createNodeStream"} = {}
              /\ operation[f] \in {"none"} \cup Reference
              /\ operation[f] = "none" <=> "addReferenceStream" \notin visited[f]
              /\ operation[f] = "none" => f \in restore
         /\ f \in restore => "atvReferenceFilter.restore" \in visited[f]
         /\ ~isTypeDefinition(f) /\ ~isAtviseReferenceConfig(f) =>
              {"useTransformers", "nodeFileStream", "writeStream"} \subseteq visited[f]
         /\ operation[f] = "creating" => "createNodeStream" \in visited[f]
  /\ pushStream = "exited" =>
       \A f \in PushFiles : f \in srcStream \/ visited[f] = {} \/ operation[f] # "none"
  /\ pushStream = "exited" /\ (\E f \in PushFiles : visited[f] # {}) => srcStream = {}

\* A run has ended in which the type definition file was created, a node file
\* written and a reference config file added.
C35_Witness ==
  /\ pushStream = "exited"
  /\ operation["n2"] = "created"
  /\ operation["n1"] = "written"
  /\ operation["r1"] = "added"

\* C37: once a watcher has emitted 'error' before 'ready', or ./src does not exist
\* (the file watcher is then never created), the promise of WatchTask#run can only
\* reject: the change handlers are never registered, so no handler runs, no push
\* and no pull starts, and the watch state stays as the constructor left it.
C37_FailedStartNeverWatches ==
  (watcher.file = "failed" \/ watcher.server = "failed") =>
    /\ run \in {"pending", "rejected"}
    /\ pushes = <<>> /\ pulls = <<>>
    /\ last = NoCall
    /\ reloads = 0
    /\ ~_pushing /\ ~_pulling /\ _lastPull = 0 /\ _lastPushed = Null

\* The run has rejected after ./src was missing although the server watcher got
\* ready.
C37_Witness ==
  /\ run = "rejected"
  /\ watcher.file = "failed"
  /\ watcher.server = "ready"

\* C38: the flags reflect the operations in flight: _pushing is true while a push
\* started by handleFileChange has not ended, _pulling is true while a pull
\* started by handleServerChange has not ended.
C38_FlagsReflectInFlight ==
  /\ Len(pushes) > 0 => _pushing
  /\ Len(pulls) > 0 => _pulling

\* C39: a handler that ignores its event leaves _pulling, _pushing, _lastPull and
\* _lastPushed as they are: a file-change event that starts no push, and a
\* remote-change event ignored while pushing.  _lastPushed gets a node id only
\* from the 'data' event of a push and is cleared only by a suppressed echo;
\* _lastPull changes only at the end of a pull.
C39_IgnoredKeepsState ==
  [][/\ (last'.op \in {"file", "server"} /\ last'.res = "ignored") =>
          /\ state' = state
          /\ pushes' = pushes /\ pulls' = pulls
     /\ (_lastPushed' # _lastPushed /\ _lastPushed' # Null) =>
          last'.op = "pushData" /\ _lastPushed' = last'.node
     /\ (_lastPushed' # _lastPushed /\ _lastPushed' = Null) =>
          last'.op = "server" /\ last'.res = "suppressed"
     /\ _lastPull' # _lastPull => last'.op = "pullEnd"]_vars

\* A remote-change event has just been ignored while a push was running that had
\* already set _lastPushed, after a pull had set _lastPull.
C39_Witness ==
  /\ last.op = "server" /\ last.res = "ignored"
  /\ _pushing
  /\ _lastPushed # Null
  /\ _lastPull # 0

\* C40: browserSyncInstance.reload() is called once for every push or pull that
\* ends, in the 'end' listener of that operation and so not before its end, and
\* never by a handler: not when an event starts an operation, is ignored or is
\* suppressed.
C40_ReloadOncePerEnd ==
  [][/\ reloads' # reloads =>
          /\ reloads' = reloads + 1
          /\ last'.op \in {"pushEnd", "pullEnd"}
          /\ Len(pushes') + Len(pulls') = Len(pushes) + Len(pulls) - 1
     /\ (Len(pushes') < Len(pushes) \/ Len(pulls') < Len(pulls)) =>
          reloads' = reloads + 1
     /\ last'.op \in {"file", "server", "pushData", "pullWrite"} =>
          reloads' = reloads]_vars

\* A push and a pull have ended, the pull last, and both have reloaded.
C40_Witness ==
  /\ reloads = 2
  /\ last.op = "pullEnd"
  /\ pushes = <<>> /\ pulls = <<>>
  /\ run = "exiting"

====
